---- MODULE Spec2Model ----
(***************************************************************************)
(* Connector framework of unlock-platform (packages/source-access):        *)
(* the token-bucket rate limiter, the retrying transport, the pagination   *)
(* driver of BaseConnector and the four provider adapters.                 *)
(*                                                                         *)
(* Units.  Token amounts are counted in quarter tokens (OneToken = 4) and  *)
(* time in half seconds, so that a rate of r quarter-tokens per tick is    *)
(* r/2 tokens per second (rate 1 = 0.5/s, 2 = 1/s, 4 = 2/s).  With the     *)
(* capacities below every refill amount and every wait time of the code    *)
(* is a whole number of these units, so the arithmetic is exact.           *)
(***************************************************************************)
EXTENDS Integers, Sequences, FiniteSets, TLC

\* ------------------------------------------------------------------ bounds
MaxTime == 10         \* the clock stops advancing here (half seconds)
MaxAcquires == 4      \* acquire() calls issued on the bucket under BucketSpec
MaxCapacity == 6      \* largest explicit capacity tried (half tokens)

\* --------------------------------------------------------------- constants
OneToken == 4         \* the literal 1.0 of rate_limit.py, in quarter tokens
PageLimit == 100      \* the fixed page size the adapters ask for

NoOne == "none"
Coroutines == {"t1", "t2"}

\* rates tried: 0, 0.5, 1 and 2 tokens per second
Rates == {0, 1, 2, 4}

Min(a, b) == IF a <= b THEN a ELSE b
Max(a, b) == IF a >= b THEN a ELSE b

\* capacity=None: "capacity if capacity is not None else rate"; a rate of
\* r quarter-tokens per half second is 2r quarter-tokens per second, and the
\* capacity takes that number of tokens
DefaultCapacity(rate) == 2 * rate

\* explicit capacities: multiples of half a token that the rate divides
Capacities(rate) ==
    {c \in {2 * h : h \in 0..MaxCapacity} : rate > 0 => c % rate = 0}

VARIABLES
    bucket,       \* TokenBucket: [rate, capacity, tokens, last_refill]
    now,          \* time.monotonic(), half seconds since construction
    lock,         \* TokenBucket._lock: the coroutine holding it, or NoOne
    waiters,      \* coroutines queued on the lock, in arrival order
    cpc,          \* position of each coroutine inside acquire()
    wake_at,      \* end of each coroutine's asyncio.sleep
    calls,        \* acquire() calls issued
    returned,     \* acquire() calls that returned
    raised,       \* acquire() calls that raised
    sleeps,       \* asyncio.sleep calls made by acquire()
    last_spend    \* tokens right before and right after the last decrement

bvars == <<bucket, now, lock, waiters, cpc, wake_at, calls, returned, raised,
           sleeps, last_spend>>

VARIABLES
    cfg,            \* SourceConfig of the adapter (immutable)
    req,            \* FetchRequest of the running operation
    provider,       \* the provider's pages, fixed once the first page is served
    pc,             \* position of the activity's sequential flow
    op,             \* the running operation
    connector,      \* "none" until get_connector has built the adapter
    client,         \* BaseConnector._client is not None
    request_count,  \* BaseConnector.request_count
    all_records,    \* fetch_data: all_records
    cursor,         \* fetch_data: cursor
    pages_fetched,  \* fetch_data: pages_fetched
    purpose,        \* who called _request_with_retry: "check", "page", "sample"
    attempt,        \* tenacity attempt number of the running request
    outcomes,       \* outcome of each attempt of the running request, in order
    last_request,   \* the HTTP request being sent
    page_result,    \* what _fetch_page returned: <<records, next_cursor>>
    result,         \* the result object the operation returned
    last_error,     \* the exception the operation caught, NoError if none
    page_calls,     \* _fetch_page calls made
    page_returns,   \* _fetch_page calls that returned
    http_sent,      \* HTTP requests handed to the client
    acquired,       \* rate_limiter.acquire() calls that returned
    credential_reads, \* _resolve_credential calls that returned a credential
    file_reads,     \* Path.read_text calls
    close_calls,    \* connector.close() calls
    client_closes,  \* AsyncClient.aclose() calls
    direct_closes,  \* close() calls made on the adapter after the activity's own
    hb_lost         \* some activity.heartbeat() call raised

cvars == <<cfg, req, provider, pc, op, connector, client, request_count,
           all_records, cursor, pages_fetched, purpose, attempt, outcomes, last_request,
           page_result, result, last_error, page_calls, page_returns, http_sent,
           acquired, credential_reads, file_reads, close_calls, client_closes, direct_closes,
           hb_lost>>

VARIABLES
    store,          \* the Redis keyspace of the config store: key -> value
    uuids,          \* uuid.uuid4() values drawn by the config activities
    publishes,      \* results of the publish_schema calls, in call order
    kcall           \* the last config activity call and what it returned

kvars == <<store, uuids, publishes, kcall>>

VARIABLES
    db,             \* the relational store: the rows of its tables
    dcalls          \* the data-access calls made and their results

dvars == <<db, dcalls>>

VARIABLES
    inflight        \* the publish_schema calls of concurrent callers, step by step

pvars == <<inflight>>

svars == <<kvars, dvars, pvars>>

vars == <<bvars, cvars, svars>>

\* ------------------------------------------------------------ data values
\* JSON / Python values carry their Python type name, as type(v).__name__
Str(code) == [t |-> "str", v |-> code]
IntV(n) == [t |-> "int", v |-> <<n>>]
BoolV(b) == [t |-> "bool", v |-> IF b THEN <<1>> ELSE <<0>>]
DictV(code) == [t |-> "dict", v |-> code]
NoneV == [t |-> "NoneType", v |-> <<>>]
EmptyStr == Str(<<>>)

\* dict.get(k, d)
GetOr(f, k, d) == IF k \in DOMAIN f THEN f[k] ELSE d

\* a pagination cursor: None, a provider token or a full URL
NoCursor == [kind |-> "none", page |-> 0]
Token(i) == [kind |-> "token", page |-> i]
Url(i) == [kind |-> "url", page |-> i]

\* Python truthiness of "str | None": "if cursor", "if not next_cursor"
Truthy(c) == c.kind \notin {"none", "empty"}

NoError == [type |-> "none", what |-> "none", name |-> ""]
Error(type, what, name) == [type |-> type, what |-> what, name |-> name]

NoResult == [kind |-> "none"]
NoRequest == [resource_type |-> "posts", max_pages |-> 0]
NoHttp ==
    [method |-> "none", path |-> "none", cursor |-> NoCursor, offset |-> NoCursor,
     verbatim |-> NoCursor, limit |-> 0]
NoBucket == [rate |-> 0, capacity |-> 0, tokens |-> 0, last_refill |-> 0]
NoProvider == [pages |-> <<>>, endless |-> FALSE]
NoConfig ==
    [source_type |-> "none", auth_env_var |-> "", env |-> "<unset>",
     config_json |-> [account_id |-> "<absent>"], rate |-> 0]

\* the connector part of the state while only a TokenBucket is exercised
ConnectorIdle ==
    /\ cfg = NoConfig
    /\ req = NoRequest
    /\ provider = NoProvider
    /\ pc = "off"
    /\ op = "none"
    /\ connector = "none"
    /\ client = FALSE
    /\ request_count = 0
    /\ all_records = <<>>
    /\ cursor = NoCursor
    /\ pages_fetched = 0
    /\ purpose = "none"
    /\ attempt = 0
    /\ outcomes = <<>>
    /\ last_request = NoHttp
    /\ page_result = <<>>
    /\ result = NoResult
    /\ last_error = NoError
    /\ page_calls = 0
    /\ page_returns = 0
    /\ http_sent = 0
    /\ acquired = 0
    /\ credential_reads = 0
    /\ file_reads = 0
    /\ close_calls = 0
    /\ client_closes = 0
    /\ direct_closes = 0
    /\ hb_lost = FALSE

NoCall == [op |-> "none", seq |-> 0]
NoUuids == [schemas |-> 0, views |-> 0]
NoDb ==
    [sources |-> {}, channels |-> {}, people |-> {}, content |-> {},
     mappings |-> {}, identities |-> {}, details |-> 0, minted |-> 0]

\* the workers that can run publish_schema at the same time
Callers == {"worker1", "worker2"}

\* a worker that runs no publish_schema call
NotCalling ==
    [at |-> "idle", name |-> <<>>, existing_id |-> <<>>, schema_id |-> <<>>,
     version |-> 0, cmd |-> 0, wrote |-> FALSE, success |-> FALSE,
     overlapped |-> FALSE, began |-> 0]
NoneInFlight == [c \in Callers |-> NotCalling]

\* the two stores while no storage activity is exercised
StoresIdle ==
    /\ store = <<>>
    /\ uuids = NoUuids
    /\ publishes = <<>>
    /\ kcall = NoCall
    /\ db = NoDb
    /\ dcalls = <<>>
    /\ inflight = NoneInFlight

\* ------------------------------------------------------------- TokenBucket
\* TokenBucket.__init__
TokenBucket(rate, capacity, t) ==
    [rate |-> rate, capacity |-> capacity, tokens |-> capacity, last_refill |-> t]

RefillNoCap(b, t) ==
    [b EXCEPT !.tokens = b.tokens + (t - b.last_refill) * b.rate,
              !.last_refill = t]

\* TokenBucket._refill
Refill(b, t) ==
    [b EXCEPT !.tokens = Min(b.capacity, b.tokens + (t - b.last_refill) * b.rate),
              !.last_refill = t]

WaitTimeHalved(b) == ((OneToken - b.tokens) \div b.rate) \div 2

\* wait_time = (1.0 - self.tokens) / self.rate   (rate # 0)
WaitTime(b) == (OneToken - b.tokens) \div b.rate

ConsumeNothing(b) == b

\* self.tokens -= 1.0
Consume(b) == [b EXCEPT !.tokens = b.tokens - OneToken]

LockIgnored(lk) == TRUE

LockFreeWhileAsleep(lk) == lk = NoOne \/ cpc[lk] = "sleeping"

\* asyncio.Lock.acquire takes the lock at once only when nobody holds it
LockAvailable(lk) == lk = NoOne

\* leaving "async with self._lock": the first queued coroutine gets the lock
Release ==
    IF waiters = <<>>
    THEN /\ lock' = NoOne
         /\ waiters' = waiters
    ELSE /\ lock' = Head(waiters)
         /\ waiters' = Tail(waiters)

PcAfterRelease(p, pcs) ==
    IF waiters = <<>>
    THEN [pcs EXCEPT ![p] = "idle"]
    ELSE [pcs EXCEPT ![p] = "idle", ![Head(waiters)] = "held"]

BucketInit ==
    /\ \E rate \in Rates :
         \E capacity \in Capacities(rate) \cup {DefaultCapacity(rate)} :
           bucket = TokenBucket(rate, capacity, 0)
    /\ now = 0
    /\ lock = NoOne
    /\ waiters = <<>>
    /\ cpc = [p \in Coroutines |-> "idle"]
    /\ wake_at = [p \in Coroutines |-> 0]
    /\ calls = 0
    /\ returned = 0
    /\ raised = 0
    /\ sleeps = 0
    /\ last_spend = <<>>
    /\ ConnectorIdle
    /\ StoresIdle

\* acquire(): "async with self._lock"
CallAcquire(p) ==
    /\ cpc[p] = "idle"
    /\ calls < MaxAcquires
    /\ calls' = calls + 1
    /\ IF LockAvailable(lock)
       THEN /\ lock' = p
            /\ cpc' = [cpc EXCEPT ![p] = "held"]
            /\ waiters' = waiters
       ELSE /\ waiters' = Append(waiters, p)
            /\ cpc' = [cpc EXCEPT ![p] = "waiting"]
            /\ lock' = lock
    /\ UNCHANGED <<bucket, now, wake_at, returned, raised, sleeps, last_spend>>
    /\ UNCHANGED <<cvars, svars>>

\* acquire(): _refill(), the test tokens < 1.0, and either the decrement or
\* the start of the sleep (ZeroDivisionError when rate = 0)
RefillAndCheck(p) ==
    /\ cpc[p] = "held"
    /\ LET b == Refill(bucket, now) IN
       IF b.tokens < OneToken
       THEN IF b.rate = 0
            THEN /\ bucket' = b
                 /\ raised' = raised + 1
                 /\ Release
                 /\ cpc' = PcAfterRelease(p, cpc)
                 /\ UNCHANGED <<wake_at, returned, sleeps, last_spend>>
            ELSE /\ bucket' = b
                 /\ wake_at' = [wake_at EXCEPT ![p] = now + WaitTime(b)]
                 /\ cpc' = [cpc EXCEPT ![p] = "sleeping"]
                 /\ sleeps' = sleeps + 1
                 /\ UNCHANGED <<lock, waiters, returned, raised, last_spend>>
       ELSE /\ bucket' = Consume(b)
            /\ last_spend' = <<b.tokens, Consume(b).tokens>>
            /\ returned' = returned + 1
            /\ Release
            /\ cpc' = PcAfterRelease(p, cpc)
            /\ UNCHANGED <<wake_at, raised, sleeps>>
    /\ UNCHANGED <<now, calls>>
    /\ UNCHANGED <<cvars, svars>>

\* acquire(): the sleep is over; _refill() again, decrement, leave the lock
WakeAndSpend(p) ==
    /\ cpc[p] = "sleeping"
    /\ now >= wake_at[p]
    /\ LET b == Refill(bucket, now) IN
         /\ bucket' = Consume(b)
         /\ last_spend' = <<b.tokens, Consume(b).tokens>>
    /\ returned' = returned + 1
    /\ Release
    /\ cpc' = PcAfterRelease(p, cpc)
    /\ UNCHANGED <<now, wake_at, calls, raised, sleeps>>
    /\ UNCHANGED <<cvars, svars>>

\* _refill() called directly, outside acquire()
DirectRefill ==
    /\ Refill(bucket, now) # bucket
    /\ bucket' = Refill(bucket, now)
    /\ UNCHANGED <<now, lock, waiters, cpc, wake_at, calls, returned, raised,
                   sleeps, last_spend>>
    /\ UNCHANGED <<cvars, svars>>

\* the monotonic clock advances
Tick ==
    /\ now < MaxTime
    /\ now' = now + 1
    /\ UNCHANGED <<bucket, lock, waiters, cpc, wake_at, calls, returned, raised,
                   sleeps, last_spend>>
    /\ UNCHANGED <<cvars, svars>>

BucketNext ==
    \/ \E p \in Coroutines : CallAcquire(p)
    \/ \E p \in Coroutines : RefillAndCheck(p)
    \/ \E p \in Coroutines : WakeAndSpend(p)
    \/ DirectRefill
    \/ Tick

BucketSpec == BucketInit /\ [][BucketNext]_vars

\* ---------------------------------------------------------------- adapters
MaxPages == 3           \* largest FetchRequest.max_pages tried
MaxProviderPages == 2   \* most pages a provider offers before it ends or cycles
MaxCloses == 1          \* further close() calls made on a finished adapter
MaxClients == 3         \* HTTP clients one adapter gets to construct

\* stop=stop_after_attempt(3)
MaxAttempts == 3

\* _CONNECTOR_CLASSES
Registry == {"unipile", "x", "posthog", "rb2b"}

\* source types tried: the registered ones and one that is not registered
SourceTypes == Registry \cup {"csv"}

\* rate_limit_per_second tried: 0 and 1 token per second
ConnectorRates == {0, 2}

\* (auth_env_var, value of that variable in os.environ)
AuthEnvs ==
    {<<"", "<unset>">>, <<"API_KEY", "<unset>">>, <<"API_KEY", "">>,
     <<"API_KEY", "secret">>}

Absent == "<absent>"

\* config_json blobs tried, per adapter; Absent marks a key that is not there
ConfigJsons(st) ==
    CASE st = "x" ->
           [user_id : {Absent, "42"}, username : {Absent, "unlock"}]
      [] st = "posthog" -> [project_id : {Absent, "7"}]
      [] st = "rb2b" ->
           {[mode |-> Absent, file_path |-> Absent, ip_address |-> Absent],
            [mode |-> Absent, file_path |-> Absent, ip_address |-> "1.2.3.4"],
            [mode |-> "file", file_path |-> Absent, ip_address |-> Absent],
            [mode |-> "file", file_path |-> "dump.csv", ip_address |-> Absent],
            [mode |-> "file", file_path |-> "dump.json", ip_address |-> Absent],
            [mode |-> "file", file_path |-> "dump.txt", ip_address |-> Absent]}
      [] OTHER -> {[account_id |-> "acc1"]}

\* resource types tried, per adapter
ResourceTypes(st) ==
    CASE st = "unipile" -> {"posts", "emails"}
      [] st = "posthog" -> {"posts", "persons"}
      [] st = "rb2b" -> {"posts", "ip_to_hem"}
      [] OTHER -> {"posts"}

Requests(st) ==
    [resource_type : ResourceTypes(st), max_pages : (-1)..MaxPages]

\* extra.get(k, d) after _parse_config
CfgGet(c, k, d) ==
    IF k \in DOMAIN c.config_json /\ c.config_json[k] # Absent
    THEN c.config_json[k]
    ELSE d

\* ENRICHMENT_ENDPOINTS
EnrichmentEndpoints ==
    [ip_to_hem |-> "ip_address",
     ip_to_maid |-> "ip_address",
     ip_to_company |-> "ip_address",
     hem_to_best_linkedin |-> "email",
     hem_to_business_profile |-> "email",
     hem_to_linkedin |-> "md5",
     hem_to_maid |-> "md5",
     linkedin_to_best_personal_email |-> "linkedin_slug",
     linkedin_to_hashed_emails |-> "linkedin_slug",
     linkedin_to_mobile_phone |-> "linkedin_slug",
     linkedin_to_personal_email |-> "linkedin_slug",
     linkedin_to_business_profile |-> "linkedin_slug",
     linkedin_slug_search |-> "company_domain"]

\* Path(file_path).suffix.lower()
Suffix(path) ==
    CASE path = "dump.csv" -> ".csv"
      [] path = "dump.json" -> ".json"
      [] OTHER -> ".txt"

\* ---------------------------------------------------------------- provider
\* A provider offers Len(pages) pages; page i holds two items or none.  Page
\* i < Len(pages) points to page i+1; the last page ends the listing, or
\* points back to page 1 when the provider never stops offering a cursor.
Scripts ==
    [pages : UNION {[1..n -> BOOLEAN] : n \in 1..MaxProviderPages},
     endless : BOOLEAN]

\* the enrichment API answers in one shot; the other providers paginate
ProviderScripts(st) ==
    IF st = "rb2b"
    THEN {prov \in Scripts : Len(prov.pages) = 1 /\ ~prov.endless}
    ELSE Scripts

\* an item with every field the adapters read
Rich(i) ==
    [id |-> Str(<<i, 1>>), text |-> Str(<<5>>), likes |-> IntV(3),
     subject |-> Str(<<6>>), read_date |-> Str(<<7>>),
     from_attendee |-> DictV(<<8>>), public_metrics |-> DictV(<<2>>),
     event |-> Str(<<9>>), is_identified |-> BoolV(TRUE),
     email |-> Str(<<4>>), visit_count |-> IntV(1)]

\* an item with only an integer id
Sparse(i) == [id |-> [t |-> "int", v |-> <<i, 2>>]]

RawPage(prov, i) == IF prov.pages[i] THEN <<Rich(i), Sparse(i)>> ELSE <<>>

NextPage(prov, i) ==
    IF i < Len(prov.pages) THEN i + 1 ELSE IF prov.endless THEN 1 ELSE 0

\* the page an HTTP request asks for
PageOf(r) ==
    IF Truthy(r.verbatim) THEN r.verbatim.page
    ELSE IF Truthy(r.cursor) THEN r.cursor.page
    ELSE IF Truthy(r.offset) THEN r.offset.page
    ELSE 1

\* the JSON body each provider answers with
ProviderResponse(st, prov, i) ==
    LET items == RawPage(prov, i)
        next == NextPage(prov, i)
    IN CASE st = "unipile" ->
              IF next = 0 THEN [items |-> items]
              ELSE [items |-> items, cursor |-> Token(next)]
         [] st = "x" ->
              IF next = 0 THEN [data |-> items, meta |-> [result_count |-> NoCursor]]
              ELSE [data |-> items, meta |-> [next_token |-> Token(next)]]
         [] OTHER ->
              IF items = <<>> THEN [credits_used |-> NoCursor]
              ELSE [results |-> items]

\* the product-analytics API points to the next page with a full URL or
\* with a bare offset, and ends the listing with "next": null or with no
\* "next" key
PostHogResponses(prov, i) ==
    LET items == RawPage(prov, i)
        next == NextPage(prov, i)
    IN IF next = 0
       THEN {[results |-> items, next |-> NoCursor], [results |-> items]}
       ELSE {[results |-> items, next |-> Url(next)],
             [results |-> items, next |-> Token(next)]}

\* the bodies a provider can answer a page request with
ProviderResponses(st, prov, i) ==
    IF st = "posthog" THEN PostHogResponses(prov, i)
    ELSE {ProviderResponse(st, prov, i)}

\* ----------------------------------------------------------- normalization
Map(F(_), seq) == [k \in 1..Len(seq) |-> F(seq[k])]

\* str(x)
StrOf(x) == [t |-> "str", v |-> x.v]

\* UnipileConnector._normalize_post
NormalizePost(item) ==
    [id |-> GetOr(item, "id", EmptyStr),
     text |-> GetOr(item, "text", EmptyStr),
     created_at |-> GetOr(item, "created_at", NoneV),
     likes |-> GetOr(item, "likes", IntV(0))]

\* UnipileConnector._normalize_email
NormalizeEmail(item) ==
    [id |-> GetOr(item, "id", EmptyStr),
     subject |-> GetOr(item, "subject", EmptyStr),
     from_address |->
         LET att == GetOr(item, "from_attendee", DictV(<<>>))
         IN IF att.t = "dict" THEN Str(att.v) ELSE StrOf(att),
     is_read |-> BoolV(GetOr(item, "read_date", NoneV) # NoneV)]

\* XConnector._normalize_tweet
NormalizeTweet(item) ==
    [id |-> GetOr(item, "id", EmptyStr),
     text |-> GetOr(item, "text", EmptyStr),
     created_at |-> GetOr(item, "created_at", NoneV),
     public_metrics |->
         LET m == GetOr(item, "public_metrics", DictV(<<>>))
         IN DictV(IF m.v = <<>> THEN <<0>> ELSE m.v)]

\* PostHogConnector._normalize_event
NormalizeEvent(item) ==
    [id |-> GetOr(item, "id", EmptyStr),
     event |-> GetOr(item, "event", EmptyStr),
     timestamp |-> GetOr(item, "timestamp", NoneV)]

\* PostHogConnector._normalize_person
NormalizePerson(item) ==
    [id |-> StrOf(GetOr(item, "id", EmptyStr)),
     created_at |-> GetOr(item, "created_at", NoneV),
     is_identified |-> GetOr(item, "is_identified", BoolV(FALSE))]

\* RB2BConnector._normalize_person
NormalizeVisitor(item) ==
    [id |-> StrOf(GetOr(item, "id", EmptyStr)),
     email |-> GetOr(item, "email", EmptyStr),
     first_seen |-> GetOr(item, "first_seen", NoneV),
     visit_count |-> GetOr(item, "visit_count", IntV(0))]

\* RB2BConnector._normalize_csv_row: every CSV cell is a string
NormalizeCsvRow(row) ==
    [id |-> StrOf(GetOr(row, "id", EmptyStr)),
     email |-> StrOf(GetOr(row, "email", EmptyStr)),
     first_seen |-> IF "first_seen" \in DOMAIN row THEN StrOf(row.first_seen) ELSE NoneV,
     visit_count |->
         [t |-> "int", v |-> GetOr(row, "visit_count", IntV(0)).v]]

\* the normalization an adapter applies to the items of a page
NormalizeItems(st, resource, items) ==
    CASE st = "unipile" /\ resource = "emails" -> Map(NormalizeEmail, items)
      [] st = "unipile" /\ resource # "emails" -> Map(NormalizePost, items)
      [] st = "x" -> Map(NormalizeTweet, items)
      [] st = "posthog" /\ resource = "persons" -> Map(NormalizePerson, items)
      [] st = "posthog" /\ resource # "persons" -> Map(NormalizeEvent, items)
      [] OTHER -> items

EnrichmentCursorFollowed(resp) == Token(2)

\* RB2BConnector._enrich: "return [], None" and "return records, None"
EnrichmentCursor(resp) == NoCursor

\* the tail of each adapter's _fetch_page: (records, next_cursor) of a response
ParsePage(st, resource, resp) ==
    CASE st = "unipile" ->
           <<NormalizeItems(st, resource, GetOr(resp, "items", <<>>)),
             GetOr(resp, "cursor", NoCursor)>>
      [] st = "x" ->
           <<NormalizeItems(st, resource, GetOr(resp, "data", <<>>)),
             GetOr(GetOr(resp, "meta", <<>>), "next_token", NoCursor)>>
      [] st = "posthog" ->
           <<NormalizeItems(st, resource, GetOr(resp, "results", <<>>)),
             GetOr(resp, "next", NoCursor)>>
      [] OTHER ->
           \* results = data.get("results") or data.get("result")
           LET plural == GetOr(resp, "results", <<>>)
           IN <<IF plural # <<>> THEN plural
                ELSE IF "result" \in DOMAIN resp THEN <<resp.result>>
                ELSE <<>>,
                EnrichmentCursor(resp)>>

InferFieldsFromLast(records) ==
    IF records = <<>> THEN <<>>
    ELSE [k \in DOMAIN records[Len(records)] |-> records[Len(records)][k].t]

\* {k: type(v).__name__ for k, v in records[0].items()}, {} without records
InferFields(records) ==
    IF records = <<>> THEN <<>>
    ELSE [k \in DOMAIN records[1] |-> records[1][k].t]

\* ----------------------------------------------------------- BaseConnector
\* TokenBucket.acquire as one sequential caller runs it: refill, sleep for
\* wait_time when less than a token is there, refill again, decrement
Acquire(b, t) ==
    LET b1 == Refill(b, t) IN
    IF b1.tokens < OneToken
    THEN IF b1.rate = 0
         THEN [raised |-> TRUE, bucket |-> b1, now |-> t]
         ELSE LET t2 == t + Max(WaitTime(b1), 0)
              IN [raised |-> FALSE, bucket |-> Consume(Refill(b1, t2)), now |-> t2]
    ELSE [raised |-> FALSE, bucket |-> Consume(b1), now |-> t]

\* wait_exponential(multiplier=1, min=1, max=30) after attempt n, in half
\* seconds: max(1, min(2^(n-1), 30)) seconds
Backoff(n) == 2 * Max(1, Min(2 ^ (n - 1), 30))

CredentialNotChecked(c) == NoError

ResolveCredentialIgnoresValue(c) ==
    IF c.auth_env_var = ""
    THEN Error("ValueError", "no auth_env_var configured", "")
    ELSE NoError

\* BaseConnector._resolve_credential: the error it raises, or NoError
ResolveCredential(c) ==
    IF c.auth_env_var = ""
    THEN Error("ValueError", "no auth_env_var configured", "")
    ELSE LET value == IF c.env = "<unset>" THEN "" ELSE c.env
         IN IF value = ""
            THEN Error("ValueError", "environment variable not set or empty",
                       c.auth_env_var)
            ELSE NoError

Message(text, e) == [text |-> text, error |-> e]

FailureResultDropsRecords(o, e, recs) ==
    CASE o = "fetch_data" ->
           [kind |-> "FetchResult", success |-> FALSE,
            message |-> Message("Fetch failed: ", e),
            records |-> <<>>, record_count |-> 0, has_more |-> FALSE]
      [] o = "get_schema" ->
           [kind |-> "SourceSchema", success |-> FALSE,
            message |-> Message("Schema discovery failed: ", e)]
      [] OTHER ->
           [kind |-> "ConnectionResult", success |-> FALSE,
            message |-> Message("Connection failed: ", e)]

FailureEscapes(o, e, recs) == [kind |-> "raised", error |-> e]

\* the "except Exception as e" branch of connect / fetch_data / get_schema
FailureResult(o, e, recs) ==
    CASE o = "fetch_data" ->
           [kind |-> "FetchResult", success |-> FALSE,
            message |-> Message("Fetch failed: ", e),
            records |-> recs, record_count |-> Len(recs), has_more |-> FALSE]
      [] o = "get_schema" ->
           [kind |-> "SourceSchema", success |-> FALSE,
            message |-> Message("Schema discovery failed: ", e)]
      [] OTHER ->
           [kind |-> "ConnectionResult", success |-> FALSE,
            message |-> Message("Connection failed: ", e)]

\* has_more=cursor is not None
HasMore(cur) == cur.kind # "none"

\* record_count=len(all_records)
RecordCount(recs) == Len(recs)

ExtendInFront(all, recs) == recs \o all

\* all_records.extend(records)
Extend(all, recs) == all \o recs

\* the FetchResult built after the pagination loop
FetchSuccess(recs, cur) ==
    [kind |-> "FetchResult", success |-> TRUE,
     message |-> Message("Fetched records", NoError),
     records |-> recs, record_count |-> RecordCount(recs),
     has_more |-> HasMore(cur)]

ConnectionSuccess(text) ==
    [kind |-> "ConnectionResult", success |-> TRUE,
     message |-> Message(text, NoError)]

PageErrorSkipsWhitelist(c, r) ==
    CASE c.source_type = "x" /\ CfgGet(c, "user_id", "") = "" ->
           Error("ValueError", "config_json requires", "user_id")
      [] c.source_type = "rb2b"
           /\ r.resource_type \in DOMAIN EnrichmentEndpoints
           /\ CfgGet(c, EnrichmentEndpoints[r.resource_type], "") = "" ->
           Error("ValueError", "config_json requires",
                 EnrichmentEndpoints[r.resource_type])
      [] OTHER -> NoError

\* what an adapter's _fetch_page raises before any request, or NoError
PageError(c, r) ==
    CASE c.source_type = "x" /\ CfgGet(c, "user_id", "") = "" ->
           Error("ValueError", "config_json requires", "user_id")
      [] c.source_type = "rb2b"
           /\ r.resource_type \notin DOMAIN EnrichmentEndpoints ->
           Error("ValueError", "unknown resource_type", r.resource_type)
      [] c.source_type = "rb2b"
           /\ r.resource_type \in DOMAIN EnrichmentEndpoints
           /\ CfgGet(c, EnrichmentEndpoints[r.resource_type], "") = "" ->
           Error("ValueError", "config_json requires",
                 EnrichmentEndpoints[r.resource_type])
      [] OTHER -> NoError

\* PostHogConnector._project_prefix
ProjectPrefix(c) ==
    IF CfgGet(c, "project_id", "") # "" THEN "projects/{project_id}/" ELSE ""

PageRequestDropsCursor(c, r, cur) ==
    LET param == NoCursor IN
    CASE c.source_type = "unipile" ->
           [method |-> "GET",
            path |-> IF r.resource_type = "emails" THEN "emails" ELSE "users/me/posts",
            cursor |-> param, offset |-> NoCursor, verbatim |-> NoCursor,
            limit |-> PageLimit]
      [] c.source_type = "x" ->
           [method |-> "GET", path |-> "users/{user_id}/tweets",
            cursor |-> param, offset |-> NoCursor, verbatim |-> NoCursor,
            limit |-> PageLimit]
      [] c.source_type = "posthog" ->
           IF FALSE
           THEN [method |-> "GET", path |-> "", cursor |-> NoCursor,
                 offset |-> NoCursor, verbatim |-> cur, limit |-> 0]
           ELSE [method |-> "GET",
                 path |-> IF r.resource_type = "persons"
                          THEN IF ProjectPrefix(c) = "" THEN "persons/"
                               ELSE "projects/{project_id}/persons/"
                          ELSE IF ProjectPrefix(c) = "" THEN "events/"
                               ELSE "projects/{project_id}/events/",
                 cursor |-> NoCursor, offset |-> param, verbatim |-> NoCursor,
                 limit |-> PageLimit]
      [] OTHER ->
           [method |-> "POST", path |-> r.resource_type, cursor |-> NoCursor,
            offset |-> NoCursor, verbatim |-> NoCursor, limit |-> 0]

UrlNeverRecognised(cur) == FALSE

\* PostHogConnector: "if cursor and cursor.startswith('http')"
IsUrl(cur) == Truthy(cur) /\ cur.kind = "url"

\* the request an adapter's _fetch_page hands to _request_with_retry
PageRequest(c, r, cur) ==
    LET param == IF Truthy(cur) THEN cur ELSE NoCursor IN
    CASE c.source_type = "unipile" ->
           [method |-> "GET",
            path |-> IF r.resource_type = "emails" THEN "emails" ELSE "users/me/posts",
            cursor |-> param, offset |-> NoCursor, verbatim |-> NoCursor,
            limit |-> PageLimit]
      [] c.source_type = "x" ->
           [method |-> "GET", path |-> "users/{user_id}/tweets",
            cursor |-> param, offset |-> NoCursor, verbatim |-> NoCursor,
            limit |-> PageLimit]
      [] c.source_type = "posthog" ->
           IF IsUrl(cur)
           THEN [method |-> "GET", path |-> "", cursor |-> NoCursor,
                 offset |-> NoCursor, verbatim |-> cur, limit |-> 0]
           ELSE [method |-> "GET",
                 path |-> IF r.resource_type = "persons"
                          THEN IF ProjectPrefix(c) = "" THEN "persons/"
                               ELSE "projects/{project_id}/persons/"
                          ELSE IF ProjectPrefix(c) = "" THEN "events/"
                               ELSE "projects/{project_id}/events/",
                 cursor |-> NoCursor, offset |-> param, verbatim |-> NoCursor,
                 limit |-> PageLimit]
      [] OTHER ->
           [method |-> "POST", path |-> r.resource_type, cursor |-> NoCursor,
            offset |-> NoCursor, verbatim |-> NoCursor, limit |-> 0]

\* the request of an adapter's _check_connection
CheckRequest(c) ==
    [method |-> "GET",
     path |-> CASE c.source_type = "unipile" -> "accounts"
                [] c.source_type = "x" -> "users/by/username/{username}"
                [] c.source_type = "posthog" -> "projects/{project_id}"
                [] OTHER -> "credits",
     cursor |-> NoCursor, offset |-> NoCursor, verbatim |-> NoCursor,
     limit |-> 0]

FileMode(c) == c.source_type = "rb2b" /\ CfgGet(c, "mode", "api") = "file"

IdleBucketSide ==
    /\ lock = NoOne
    /\ waiters = <<>>
    /\ cpc = [p \in Coroutines |-> "idle"]
    /\ wake_at = [p \in Coroutines |-> 0]
    /\ calls = 0
    /\ returned = 0
    /\ raised = 0
    /\ sleeps = 0
    /\ last_spend = <<>>

lvars == <<lock, waiters, cpc, wake_at, calls, returned, raised, sleeps, last_spend>>

Init ==
    /\ \E st \in SourceTypes, ae \in AuthEnvs, rate \in ConnectorRates :
         \E cj \in ConfigJsons(st) :
           cfg = [source_type |-> st, auth_env_var |-> ae[1], env |-> ae[2],
                  config_json |-> cj, rate |-> rate]
    /\ req = NoRequest
    /\ provider = NoProvider
    /\ pc = "init"
    /\ op = "none"
    /\ connector = "none"
    /\ client = FALSE
    /\ request_count = 0
    /\ all_records = <<>>
    /\ cursor = NoCursor
    /\ pages_fetched = 0
    /\ purpose = "none"
    /\ attempt = 0
    /\ outcomes = <<>>
    /\ last_request = NoHttp
    /\ page_result = <<>>
    /\ result = NoResult
    /\ last_error = NoError
    /\ page_calls = 0
    /\ page_returns = 0
    /\ http_sent = 0
    /\ acquired = 0
    /\ credential_reads = 0
    /\ file_reads = 0
    /\ close_calls = 0
    /\ client_closes = 0
    /\ direct_closes = 0
    /\ hb_lost = FALSE
    /\ bucket = NoBucket
    /\ now = 0
    /\ IdleBucketSide
    /\ StoresIdle

RetryPageAfterFailure(e) ==
    /\ result' = result
    /\ last_error' = e
    /\ pc' = IF op = "fetch_data" /\ page_calls >= 1 THEN "loop" ELSE "finally"

\* an exception reaches the operation's "except Exception": the failure
\* result is built and the activity goes on to its "finally"
Fail(e) ==
    /\ result' = FailureResult(op, e, all_records)
    /\ last_error' = e
    /\ pc' = "finally"

RegisteredOrFallback(st) == TRUE

\* get_connector: cls = _CONNECTOR_CLASSES.get(config.source_type) is not None
Registered(st) == st \in Registry

\* get_connector: ValueError(f"Unknown source_type '...'. Supported: ...")
\* leaving the activity, which has no handler around get_connector
UnknownSourceType(st) ==
    [kind |-> "raised",
     error |-> Error("ValueError", "unknown source_type", st),
     supported |-> Registry]

\* the activity body up to the operation call: get_connector(config), which
\* raises for an unregistered source_type, else builds the adapter
\* (BaseConnector.__init__) and calls the operation
StartActivity(o, r) ==
    /\ pc = "init"
    /\ op' = o
    /\ req' = r
    /\ IF ~Registered(cfg.source_type)
       THEN /\ result' = UnknownSourceType(cfg.source_type)
            /\ pc' = "done"
            /\ UNCHANGED <<connector, bucket, last_error>>
       ELSE /\ connector' = "live"
            /\ bucket' = TokenBucket(cfg.rate, DefaultCapacity(cfg.rate), now)
            /\ pc' = "get_client"
            /\ UNCHANGED <<result, last_error>>
    /\ UNCHANGED <<cfg, provider, client, request_count, all_records, cursor,
                   pages_fetched, purpose, attempt, outcomes, last_request, page_result,
                   page_calls, page_returns, http_sent, acquired,
                   credential_reads, file_reads, close_calls, client_closes, direct_closes,
                   hb_lost, now>>
    /\ UNCHANGED <<lvars, svars>>

ClientAlwaysBuilt(c) == TRUE

\* _get_client: "if self._client is None"
ClientIsNone(c) == ~c

\* BaseConnector._get_client, first statement of connect / fetch_data /
\* get_schema
GetClient ==
    /\ pc = "get_client"
    /\ LET e == IF ClientIsNone(client) THEN ResolveCredential(cfg) ELSE NoError IN
       IF e # NoError
       THEN /\ Fail(e)
            /\ UNCHANGED <<client, credential_reads>>
       ELSE /\ client' = TRUE
            /\ credential_reads' =
                 credential_reads + (IF ClientIsNone(client) THEN 1 ELSE 0)
            /\ pc' = CASE op = "fetch_data" -> "loop"
                       [] op = "get_schema" -> "discover"
                       [] OTHER -> "check"
            /\ UNCHANGED <<result, last_error>>
    /\ UNCHANGED <<cfg, req, provider, op, connector, request_count,
                   all_records, cursor, pages_fetched, purpose, attempt, outcomes,
                   last_request, page_result, page_calls, page_returns,
                   http_sent, acquired, file_reads, close_calls, client_closes, direct_closes,
                   hb_lost, bucket, now>>
    /\ UNCHANGED <<lvars, svars>>

UsernameAssumed(c) == TRUE

\* XConnector._check_connection: "username = extra.get('username', '')" and
\* "if username:"
UsernameConfigured(c) == CfgGet(c, "username", "") # ""

\* _check_connection of the four adapters, up to its request
CheckConnection ==
    /\ pc = "check"
    /\ IF cfg.source_type = "x" /\ ~UsernameConfigured(cfg)
       THEN /\ result' = ConnectionSuccess("X API token provided")
            /\ pc' = "finally"
            /\ UNCHANGED <<purpose, attempt, outcomes, last_request, last_error>>
       ELSE IF cfg.source_type = "posthog" /\ ProjectPrefix(cfg) = ""
       THEN /\ result' =
                 [kind |-> "ConnectionResult", success |-> FALSE,
                  message |-> Message("PostHog connector requires 'project_id'",
                                      NoError)]
            /\ pc' = "finally"
            /\ UNCHANGED <<purpose, attempt, outcomes, last_request, last_error>>
       ELSE /\ last_request' = CheckRequest(cfg)
            /\ purpose' = "check"
            /\ attempt' = 1
            /\ outcomes' = <<>>
            /\ pc' = "acquire"
            /\ UNCHANGED <<result, last_error>>
    /\ UNCHANGED <<cfg, req, provider, op, connector, client, request_count,
                   all_records, cursor, pages_fetched, page_result, page_calls,
                   page_returns, http_sent, acquired, credential_reads,
                   file_reads, close_calls, client_closes, direct_closes, hb_lost, bucket, now>>
    /\ UNCHANGED <<lvars, svars>>

\* a call of the adapter's _fetch_page(client, request, cur) for caller who
\* ("page" from fetch_data, "sample" from _discover_schema), up to its
\* request or its file read
CallFetchPage(who, cur) ==
    /\ page_calls' = page_calls + 1
    /\ IF FileMode(cfg)
       THEN /\ purpose' = who
            /\ pc' = "read_file"
            /\ UNCHANGED <<result, last_error, attempt, outcomes, last_request>>
       ELSE IF PageError(cfg, req) # NoError
       THEN /\ Fail(PageError(cfg, req))
            /\ UNCHANGED <<purpose, attempt, outcomes, last_request>>
       ELSE /\ last_request' = PageRequest(cfg, req, cur)
            /\ purpose' = who
            /\ attempt' = 1
            /\ outcomes' = <<>>
            /\ pc' = "acquire"
            /\ UNCHANGED <<result, last_error>>

LoopConditionOffByOne(fetched, max_pages) == fetched <= max_pages

LoopConditionAtLeastOnce(fetched, max_pages) == fetched < Max(max_pages, 1)

\* while pages_fetched < request.max_pages
LoopCondition(fetched, max_pages) == fetched < max_pages

\* fetch_data: the loop test, then either the next _fetch_page call or the
\* return after the loop
FetchLoop ==
    /\ pc = "loop"
    /\ IF LoopCondition(pages_fetched, req.max_pages)
       THEN CallFetchPage("page", cursor)
       ELSE /\ result' = FetchSuccess(all_records, cursor)
            /\ pc' = "finally"
            /\ UNCHANGED <<purpose, attempt, outcomes, last_request, page_calls, last_error>>
    /\ UNCHANGED <<cfg, req, provider, op, connector, client, request_count,
                   all_records, cursor, pages_fetched, page_result,
                   page_returns, http_sent, acquired, credential_reads,
                   file_reads, close_calls, client_closes, direct_closes, hb_lost, bucket, now>>
    /\ UNCHANGED <<lvars, svars>>

\* _discover_schema: one sample page through _fetch_page(sample, None); the
\* file-dump adapter in file mode reads the file directly
DiscoverSchema ==
    /\ pc = "discover"
    /\ IF FileMode(cfg)
       THEN /\ purpose' = "sample"
            /\ pc' = "read_file"
            /\ UNCHANGED <<result, last_error, attempt, outcomes, last_request, page_calls>>
       ELSE CallFetchPage("sample", NoCursor)
    /\ UNCHANGED <<cfg, req, provider, op, connector, client, request_count,
                   all_records, cursor, pages_fetched, page_result,
                   page_returns, http_sent, acquired, credential_reads,
                   file_reads, close_calls, client_closes, direct_closes, hb_lost, bucket, now>>
    /\ UNCHANGED <<lvars, svars>>

\* the dump files tried: one page of items, or an empty file
DumpFiles == {prov \in Scripts : Len(prov.pages) = 1 /\ ~prov.endless}

\* RB2BConnector._read_file_dump, and the return of _fetch_page or the
\* continuation of _discover_schema with its records
ReadFileDump ==
    /\ pc = "read_file"
    /\ IF CfgGet(cfg, "file_path", "") = ""
       THEN /\ Fail(Error("ValueError", "config_json requires", "file_path"))
            /\ UNCHANGED <<provider, file_reads, page_result, page_returns>>
       ELSE /\ file_reads' = file_reads + 1
            /\ \E readable \in BOOLEAN :
                 IF ~readable
                 THEN /\ Fail(Error("OSError", "cannot read",
                                    CfgGet(cfg, "file_path", "")))
                      /\ UNCHANGED <<provider, page_result, page_returns>>
                 ELSE IF Suffix(CfgGet(cfg, "file_path", "")) \notin {".json", ".csv"}
                 THEN /\ Fail(Error("ValueError", "unsupported file format",
                                    Suffix(CfgGet(cfg, "file_path", ""))))
                      /\ UNCHANGED <<provider, page_result, page_returns>>
                 ELSE \E file \in DumpFiles :
                      /\ provider' = file
                      /\ page_result' =
                           <<IF Suffix(CfgGet(cfg, "file_path", "")) = ".json"
                             THEN Map(NormalizeVisitor, RawPage(file, 1))
                             ELSE Map(NormalizeCsvRow, RawPage(file, 1)),
                             NoCursor>>
                      /\ page_returns' =
                           page_returns + IF purpose = "page" THEN 1 ELSE 0
                      /\ pc' = "page_returned"
                      /\ UNCHANGED <<result, last_error>>
    /\ UNCHANGED <<cfg, req, op, connector, client, request_count, all_records,
                   cursor, pages_fetched, purpose, attempt, outcomes, last_request,
                   page_calls, http_sent, acquired, credential_reads,
                   close_calls, client_closes, direct_closes, hb_lost, bucket, now>>
    /\ UNCHANGED <<lvars, svars>>

\* _request_with_retry, one attempt: await self.rate_limiter.acquire() and
\* self.request_count += 1  (ZeroDivisionError inside acquire is not a
\* transport error, so it is not retried)
AcquireToken ==
    /\ pc = "acquire"
    /\ LET a == Acquire(bucket, now) IN
       /\ bucket' = a.bucket
       /\ now' = a.now
       /\ IF a.raised
          THEN /\ Fail(Error("ZeroDivisionError", "float division by zero", ""))
               /\ UNCHANGED <<acquired, request_count>>
          ELSE /\ acquired' = acquired + 1
               /\ request_count' = request_count + 1
               /\ pc' = "send"
               /\ UNCHANGED <<result, last_error>>
    /\ UNCHANGED <<cfg, req, provider, op, connector, client, all_records,
                   cursor, pages_fetched, purpose, attempt, outcomes, last_request,
                   page_result, page_calls, page_returns, http_sent,
                   credential_reads, file_reads, close_calls, client_closes, direct_closes,
                   hb_lost>>
    /\ UNCHANGED <<lvars, svars>>

RetryOnAnyError(outcome) == outcome \in {"transport_error", "status_error"}

\* retry_if_exception_type((httpx.TransportError, httpx.TimeoutException))
Retryable(outcome) == outcome = "transport_error"

StopAfterAttemptOffByOne(n) == n > MaxAttempts

\* stop=stop_after_attempt(3): no further attempt once n attempts were made
StopAfterAttempt(n) == n >= MaxAttempts

\* tenacity after an attempt that raised a transient error: sleep and go to
\* the next attempt, or reraise (the time a request itself takes is not
\* counted, whatever its outcome)
RetryOrReraise ==
    IF Retryable("transport_error") /\ ~StopAfterAttempt(attempt)
    THEN /\ attempt' = attempt + 1
         /\ now' = now + Backoff(attempt)
         /\ pc' = "acquire"
         /\ UNCHANGED <<result, last_error>>
    ELSE /\ Fail(Error("TransportError", "connection failed", ""))
         /\ UNCHANGED <<attempt, now>>

\* _request_with_retry, the rest of the attempt: client.request(...),
\* raise_for_status(), and tenacity's decision; a response to a page request
\* runs the tail of _fetch_page; a provider that does not answer leaves the
\* coroutine waiting in client.request
SendRequest ==
    /\ pc = "send"
    /\ http_sent' = http_sent + 1
    /\ \E outcome \in {"ok", "status_error", "transport_error", "no_response"} :
         CASE outcome = "no_response" ->
                /\ pc' = "awaiting"
                /\ UNCHANGED <<outcomes, result, last_error, provider, page_result,
                               page_returns, attempt, now>>
           [] outcome = "ok" ->
                /\ outcomes' = Append(outcomes, outcome)
                /\ IF purpose = "check"
                   THEN /\ result' = ConnectionSuccess("Connected")
                        /\ pc' = "finally"
                        /\ UNCHANGED <<provider, page_result, page_returns,
                                       attempt, now, last_error>>
                   ELSE \E prov \in IF provider = NoProvider
                                     THEN ProviderScripts(cfg.source_type)
                                     ELSE {provider} :
                        /\ provider' = prov
                        /\ \E resp \in ProviderResponses(cfg.source_type, prov,
                                                         PageOf(last_request)) :
                             page_result' =
                               ParsePage(cfg.source_type, req.resource_type, resp)
                        /\ page_returns' = page_returns + 1
                        /\ pc' = "page_returned"
                        /\ UNCHANGED <<result, last_error, attempt, now>>
           [] outcome = "transport_error" ->
                /\ outcomes' = Append(outcomes, outcome)
                /\ RetryOrReraise
                /\ UNCHANGED <<provider, page_result, page_returns>>
           [] outcome = "status_error" ->
                /\ outcomes' = Append(outcomes, outcome)
                /\ IF Retryable(outcome) /\ ~StopAfterAttempt(attempt)
                   THEN /\ attempt' = attempt + 1
                        /\ now' = now + Backoff(attempt)
                        /\ pc' = "acquire"
                        /\ UNCHANGED <<result, last_error>>
                   ELSE /\ Fail(Error("HTTPStatusError", "error response", ""))
                        /\ UNCHANGED <<attempt, now>>
                /\ UNCHANGED <<provider, page_result, page_returns>>
    /\ UNCHANGED <<cfg, req, op, connector, client, request_count, all_records,
                   cursor, pages_fetched, purpose, last_request, page_calls,
                   acquired, credential_reads, file_reads, close_calls,
                   client_closes, direct_closes, hb_lost, bucket>>
    /\ UNCHANGED <<lvars, svars>>

NoTimeout(cl) == FALSE

\* httpx.AsyncClient(..., timeout=30.0): every client carries the timeout
HasTimeout(cl) == cl

\* the client gives up on a request that got no answer within its timeout:
\* httpx.TimeoutException, a transient error for tenacity
RequestTimesOut ==
    /\ pc = "awaiting"
    /\ HasTimeout(client)
    /\ outcomes' = Append(outcomes, "transport_error")
    /\ RetryOrReraise
    /\ UNCHANGED <<cfg, req, provider, op, connector, client, request_count,
                   all_records, cursor, pages_fetched, purpose, last_request,
                   page_result, page_calls, page_returns, http_sent, acquired,
                   credential_reads, file_reads, close_calls, client_closes,
                   direct_closes, hb_lost, bucket>>
    /\ UNCHANGED <<lvars, svars>>

\* what activity.heartbeat() raises outside an activity context
HeartbeatError == Error("RuntimeError", "not in activity context", "")

HeartbeatErrorEscapes(delivered) == delivered

\* with contextlib.suppress(Exception): activity.heartbeat(...)
HeartbeatSuppressed(delivered) == TRUE

\* _fetch_page has returned (records, next_cursor).  In fetch_data: extend,
\* count the page, heartbeat (an exception from it is suppressed), then break
\* or move the cursor.  In _discover_schema: infer the fields.
PageReturned ==
    /\ pc = "page_returned"
    /\ LET records == page_result[1]
           next_cursor == page_result[2]
       IN IF purpose = "sample"
          THEN /\ result' =
                    [kind |-> "SourceSchema", success |-> TRUE,
                     message |-> Message("Discovered fields", NoError),
                     fields |-> InferFields(records)]
               /\ pc' = "finally"
               /\ UNCHANGED <<all_records, pages_fetched, cursor, hb_lost, last_error>>
          ELSE /\ all_records' = Extend(all_records, records)
               /\ pages_fetched' = pages_fetched + 1
               /\ \E delivered \in BOOLEAN :
                    /\ hb_lost' = (hb_lost \/ ~delivered)
                    /\ IF ~HeartbeatSuppressed(delivered)
                       THEN /\ result' =
                                 FailureResult(op, HeartbeatError, all_records')
                            /\ last_error' = HeartbeatError
                            /\ pc' = "finally"
                            /\ UNCHANGED cursor
                       ELSE IF ~Truthy(next_cursor)
                       THEN /\ result' = FetchSuccess(all_records', cursor)
                            /\ pc' = "finally"
                            /\ UNCHANGED <<cursor, last_error>>
                       ELSE /\ cursor' = next_cursor
                            /\ pc' = "loop"
                            /\ UNCHANGED <<result, last_error>>
    /\ UNCHANGED <<cfg, req, provider, op, connector, client, request_count,
                   purpose, attempt, outcomes, last_request, page_result, page_calls,
                   page_returns, http_sent, acquired, credential_reads,
                   file_reads, close_calls, client_closes, direct_closes, bucket, now>>
    /\ UNCHANGED <<lvars, svars>>

\* the caller's wall-clock timeout cancels the activity while it awaits the
\* HTTP response: asyncio.CancelledError is not an Exception, so no
\* "except Exception" of the operation catches it and it leaves the
\* operation; the activity's "finally" still runs
Cancel ==
    /\ pc \in {"send", "awaiting"}
    /\ http_sent' = http_sent + (IF pc = "send" THEN 1 ELSE 0)
    /\ outcomes' = Append(outcomes, "cancelled")
    /\ result' = [kind |-> "raised",
                  error |-> Error("CancelledError", "activity cancelled", "")]
    /\ pc' = "finally"
    /\ UNCHANGED <<cfg, req, provider, op, connector, client, request_count,
                   all_records, cursor, pages_fetched, purpose, attempt,
                   last_request, page_result, last_error, page_calls,
                   page_returns, acquired, credential_reads, file_reads,
                   close_calls, client_closes, direct_closes, hb_lost,
                   bucket, now>>
    /\ UNCHANGED <<lvars, svars>>

\* close() without its guard "if self._client"
AcloseUnguarded(c) == 1

\* BaseConnector.close: aclose() is awaited only when a client is held
AcloseCalls(c) == IF c THEN 1 ELSE 0

\* BaseConnector.close: self._client = None (it stays None when it was None)
ClientAfterClose(c) == FALSE

ClosesOnReturnOnly(res) == res.kind # "raised"

\* "finally:" of the activity runs however the operation was left
ClosesOnExit(res) == TRUE

\* the activity's "finally: await connector.close()" (BaseConnector.close)
Close ==
    /\ pc = "finally"
    /\ IF ClosesOnExit(result)
       THEN /\ close_calls' = close_calls + 1
            /\ client_closes' = client_closes + AcloseCalls(client)
            /\ client' = ClientAfterClose(client)
       ELSE UNCHANGED <<close_calls, client_closes, client>>
    /\ pc' = "done"
    /\ UNCHANGED <<cfg, req, provider, op, connector, request_count,
                   all_records, cursor, pages_fetched, purpose, attempt,
                   outcomes, last_request, page_result, result, last_error,
                   page_calls, page_returns, http_sent, acquired,
                   credential_reads, file_reads, direct_closes, hb_lost,
                   bucket, now>>
    /\ UNCHANGED <<lvars, svars>>

\* a further close() on the adapter once the activity is over
CloseAgain ==
    /\ pc = "done"
    /\ connector = "live"
    /\ direct_closes < MaxCloses
    /\ direct_closes' = direct_closes + 1
    /\ client_closes' = client_closes + AcloseCalls(client)
    /\ client' = ClientAfterClose(client)
    /\ UNCHANGED <<cfg, req, provider, pc, op, connector, request_count,
                   all_records, cursor, pages_fetched, purpose, attempt,
                   outcomes, last_request, page_result, result, last_error,
                   page_calls, page_returns, http_sent, acquired,
                   credential_reads, file_reads, close_calls, hb_lost,
                   bucket, now>>
    /\ UNCHANGED <<lvars, svars>>

\* a further _get_client() on the adapter once the activity is over, as a
\* caller that keeps using the adapter makes at the start of its next
\* operation; a credential that does not resolve raises to that caller
GetClientAgain ==
    /\ pc = "done"
    /\ connector = "live"
    /\ IF ClientIsNone(client)
       THEN /\ credential_reads < MaxClients
            /\ IF ResolveCredential(cfg) # NoError
               THEN UNCHANGED <<client, credential_reads>>
               ELSE /\ client' = TRUE
                    /\ credential_reads' = credential_reads + 1
       ELSE UNCHANGED <<client, credential_reads>>
    /\ UNCHANGED <<cfg, req, provider, pc, op, connector, request_count,
                   all_records, cursor, pages_fetched, purpose, attempt,
                   outcomes, last_request, page_result, result, last_error,
                   page_calls, page_returns, http_sent, acquired,
                   file_reads, close_calls, client_closes, direct_closes, hb_lost,
                   bucket, now>>
    /\ UNCHANGED <<lvars, svars>>

Next ==
    \/ \E o \in {"connect", "test_connection"} : StartActivity(o, NoRequest)
    \/ \E o \in {"fetch_data", "get_schema"} :
         \E r \in Requests(cfg.source_type) : StartActivity(o, r)
    \/ GetClient
    \/ CheckConnection
    \/ FetchLoop
    \/ DiscoverSchema
    \/ ReadFileDump
    \/ AcquireToken
    \/ SendRequest
    \/ RequestTimesOut
    \/ PageReturned
    \/ Cancel
    \/ Close
    \/ CloseAgain

Spec == Init /\ [][Next]_vars

\* the activity, and further use of its adapter by a caller that kept it
AdapterNext == Next \/ GetClientAgain

AdapterSpec == Init /\ [][AdapterNext]_vars

\* ------------------------------------------------------ claims: TokenBucket
InAcquire(p) == cpc[p] \in {"held", "sleeping"}

\* C7: in every reachable state of a TokenBucket, after construction and
\* after any sequence of acquire() and _refill() calls separated by any
\* elapsed time, tokens <= capacity.
TokensNeverExceedCapacity == bucket.tokens <= bucket.capacity

\* C7 witness: a token was consumed and a later refill, after an elapsed
\* time that would have added more than was consumed, stopped at capacity.
RefillCappedWitness ==
    /\ returned >= 1
    /\ bucket.tokens = bucket.capacity
    /\ bucket.rate * bucket.last_refill > OneToken * returned

\* C8: immediately after every acquire() returns tokens >= 0, because the
\* decrement happens only once the bucket holds at least one token; for
\* every rate > 0 and every capacity the constructor accepts.
AcquireLeavesTokensNonNegative ==
    (bucket.rate > 0 /\ last_spend # <<>>) =>
        /\ last_spend[1] >= OneToken
        /\ last_spend[2] >= 0

\* C9: under any interleaving of concurrent acquire() calls no token is
\* double-spent: a coroutine between taking and leaving the lock is the
\* lock holder (so at most one is in refill-check-wait-decrement), each
\* completed acquire lowers tokens by exactly one token, and a bucket that
\* can hold a whole token is never driven below zero.
NoDoubleSpend ==
    /\ \A p \in Coroutines : InAcquire(p) => lock = p
    /\ Cardinality({p \in Coroutines : InAcquire(p)}) <= 1
    /\ last_spend # <<>> => last_spend[2] = last_spend[1] - OneToken
    /\ (bucket.rate > 0 /\ bucket.capacity >= OneToken) => bucket.tokens >= 0

\* C9 witness: one acquire() sleeps inside the lock while a second call is
\* queued behind it, after an earlier acquire() has completed.
OverlappingAcquiresWitness ==
    /\ returned >= 1
    /\ \E p \in Coroutines, q \in Coroutines :
         cpc[p] = "sleeping" /\ cpc[q] = "waiting"

ThrottleBound ==
    /\ now * bucket.rate >= (returned + raised) * OneToken - bucket.capacity
    /\ \A p \in Coroutines :
         cpc[p] = "sleeping" =>
             (returned + raised + 1) * OneToken > bucket.capacity

Finished == pc \in {"finally", "done"}

\* the running logical request is still inside _request_with_retry
InRequest == pc \in {"acquire", "send", "awaiting"}

\* the normalized records of provider page i, as the adapter returns them
ExpectedPage(i) ==
    IF FileMode(cfg)
    THEN IF Suffix(CfgGet(cfg, "file_path", "")) = ".json"
         THEN Map(NormalizeVisitor, RawPage(provider, 1))
         ELSE Map(NormalizeCsvRow, RawPage(provider, 1))
    ELSE NormalizeItems(cfg.source_type, req.resource_type, RawPage(provider, i))

\* the records of the first k pages the provider chains from page i on
RECURSIVE PagesConcat(_, _)
PagesConcat(i, k) ==
    IF k <= 0 \/ i = 0 THEN <<>>
    ELSE ExpectedPage(i)
           \o PagesConcat(IF FileMode(cfg) THEN 0 ELSE NextPage(provider, i), k - 1)

\* the operation was left by the caller's cancellation
Cancelled ==
    /\ connector = "live"
    /\ result.kind = "raised"
    /\ result.error.type = "CancelledError"

CredentialMissing(c) == c.auth_env_var = "" \/ c.env \in {"<unset>", ""}

\* C1: for every FetchRequest with max_pages = K >= 0 and every provider
\* behaviour, one fetch_data call makes at most K _fetch_page calls.
PageCallsWithinMaxPages ==
    (op = "fetch_data" /\ req.max_pages >= 0) => page_calls <= req.max_pages

\* C1 witness: a provider that offers a cursor forever was stopped by the
\* ceiling after exactly max_pages page fetches.
CeilingStopsEndlessProviderWitness ==
    /\ op = "fetch_data"
    /\ pc = "done"
    /\ req.max_pages >= 2
    /\ page_calls = req.max_pages
    /\ provider.endless
    /\ Truthy(page_result[2])

\* C2: a successful fetch_data result has has_more = true exactly when the
\* loop stopped at the max_pages ceiling while the last fetched page still
\* returned a non-empty next cursor, and has_more = false exactly when the
\* last fetched page returned no next cursor.
HasMoreIffCursorPending ==
    (/\ pc = "done"
     /\ op = "fetch_data"
     /\ result.kind = "FetchResult"
     /\ result.success
     /\ pages_fetched >= 1)
    => (result.has_more <=>
            (pages_fetched = req.max_pages /\ Truthy(page_result[2])))

\* C3: when the provider offers n pages and no page fetch fails, fetch_data
\* returns success with records equal to the concatenation, in fetch order,
\* of the normalized records of the first min(n, max_pages) pages, and
\* record_count equal to the length of records.
FetchConcatenatesPages ==
    (/\ pc = "done"
     /\ op = "fetch_data"
     /\ credential_reads = 1
     /\ page_calls = page_returns)
    => /\ result.kind = "FetchResult"
       /\ result.success
       /\ result.records = PagesConcat(1, req.max_pages)
       /\ result.record_count = Len(result.records)

\* C3 witness: a two-page provider (page 1 with a cursor, page 2 without),
\* both pages holding records, fetched to exhaustion below the ceiling.
TwoPagesFetchedWitness ==
    /\ pc = "done"
    /\ op = "fetch_data"
    /\ result.kind = "FetchResult"
    /\ result.success
    /\ Len(provider.pages) = 2
    /\ ~provider.endless
    /\ provider.pages[1]
    /\ provider.pages[2]
    /\ req.max_pages = 3
    /\ pages_fetched = 2
    /\ result.record_count = 4

ResultKind(o) ==
    CASE o = "fetch_data" -> "FetchResult"
      [] o = "get_schema" -> "SourceSchema"
      [] OTHER -> "ConnectionResult"

MissingCredentialFailsBeforeNetwork ==
    (op = "connect" /\ connector = "live" /\ CredentialMissing(cfg))
    => /\ http_sent = 0
       /\ request_count = 0
       /\ acquired = 0
       /\ bucket.tokens = bucket.capacity
       /\ ~client
       /\ pc \in {"get_client", "finally", "done"}
       /\ Finished =>
            /\ result.kind = "ConnectionResult"
            /\ ~result.success
            /\ result.message.text # ""
            /\ cfg.auth_env_var # "" =>
                 result.message.error.name = cfg.auth_env_var

\* C6 witness: connect() has returned for an adapter whose auth_env_var
\* names an unset variable.
UnsetVariableConnectWitness ==
    /\ op = "connect"
    /\ pc = "done"
    /\ cfg.auth_env_var = "API_KEY"
    /\ cfg.env = "<unset>"
    /\ result.kind = "ConnectionResult"
    /\ ~result.success

\* C11: a rate of 0 (or below) is rejected at construction, so no adapter
\* holds a limiter with rate <= 0 and acquire() is never reached with one.
NonPositiveRateRejected ==
    /\ connector = "live" => bucket.rate > 0
    /\ InRequest => bucket.rate > 0

\* the operation ended with the error e handed to its caller
Propagated(e) ==
    /\ Finished
    /\ last_error = e
    /\ ~result.success
    /\ result.message.error = e

\* C12: one logical request through _request_with_retry makes at most 3
\* attempts: a transient error on attempt 1 or 2 is followed by another
\* attempt, the first successful attempt ends the request, and a transient
\* error on attempt 3 is propagated to the caller.
RetryAtMostThreeAttempts ==
    /\ Len(outcomes) <= 3
    /\ InRequest => attempt = Len(outcomes) + 1
    /\ \A i \in 1..Len(outcomes) :
         /\ (outcomes[i] = "transport_error" /\ i < 3) =>
                \/ i < Len(outcomes)
                \/ InRequest
         /\ outcomes[i] = "ok" => (i = Len(outcomes) /\ ~InRequest)
         /\ (outcomes[i] = "transport_error" /\ i = 3) =>
                Propagated(Error("TransportError", "connection failed", ""))

\* C12 witness: connect() made three attempts, each ending in a transient
\* error, and has returned.
ThreeTransientFailuresWitness ==
    /\ op = "connect"
    /\ pc = "done"
    /\ outcomes = <<"transport_error", "transport_error", "transport_error">>
    /\ request_count = 3
    /\ http_sent = 3

\* C13: an HTTP status error is never retried: the attempt that got it is
\* the last of its request, a request that got it at once was attempted
\* exactly once (request_count grew by 1), and the error reaches the caller.
StatusErrorNeverRetried ==
    /\ \A i \in 1..Len(outcomes) :
         outcomes[i] = "status_error" =>
             /\ i = Len(outcomes)
             /\ Propagated(Error("HTTPStatusError", "error response", ""))
    /\ (outcomes # <<>> /\ outcomes[1] = "status_error"
        /\ (op # "fetch_data" \/ page_calls = 1)) =>
             /\ request_count = 1
             /\ http_sent = 1

\* C13 witness: connect() got an error status on its first attempt and has
\* returned after that single attempt.
StatusErrorOnFirstAttemptWitness ==
    /\ op = "connect"
    /\ pc = "done"
    /\ outcomes = <<"status_error">>
    /\ request_count = 1
    /\ ~result.success

\* C14: each activity calls close() on the connector it created exactly
\* once on every exit path after creation (success result, failure result,
\* exception), and not before the operation is over.
ActivityClosesExactlyOnce ==
    /\ close_calls <= 1
    /\ connector # "live" => close_calls = 0
    /\ pc # "done" => close_calls = 0
    /\ (pc = "done" /\ connector = "live") => close_calls = 1

\* C14 witness: the operation was left by an exception after the client
\* had been created, and the activity has closed the connector.
ClosedAfterRaiseWitness ==
    /\ pc = "done"
    /\ Cancelled
    /\ credential_reads = 1
    /\ close_calls = 1
    /\ client_closes = 1

\* C15: close() is idempotent: on an adapter whose client was never created,
\* or after an earlier close(), it changes nothing; after any close() the
\* adapter holds no client, and the client is closed exactly once per
\* construction.
CloseIdempotent ==
    /\ client_closes <= credential_reads
    /\ (close_calls + direct_closes >= 1) =>
           /\ ~client
           /\ client_closes = credential_reads

\* C15 witness: close() was called again on an adapter that had created its
\* client and had been closed by the activity.
ClosedAgainWitness ==
    /\ credential_reads = 1
    /\ close_calls = 1
    /\ direct_closes = 1
    /\ client_closes = 1
    /\ ~client

\* pages a fetch_data call fetches when no page fetch fails
ExpectedPagesFetched ==
    IF provider.endless THEN req.max_pages
    ELSE Min(Len(provider.pages), req.max_pages)

\* C16: a heartbeat that raises after any page never changes the outcome of
\* fetch_data: no failure comes from it, pagination goes on to the next
\* page, and success, records, record_count and has_more are those of the
\* run in which every heartbeat is delivered.
HeartbeatFailureHarmless ==
    (op = "fetch_data" /\ hb_lost) =>
        /\ last_error # HeartbeatError
        /\ (pc = "done" /\ page_calls = page_returns) =>
               /\ result.kind = "FetchResult"
               /\ result.success
               /\ pages_fetched = ExpectedPagesFetched
               /\ result.records = PagesConcat(1, req.max_pages)
               /\ result.record_count = Len(result.records)
               /\ result.has_more =
                      (pages_fetched >= 1 /\ NextPage(provider, 1) # 0)

\* C16 witness: a heartbeat raised during a fetch that went on to fetch
\* three pages and returned them.
HeartbeatLostThreePagesWitness ==
    /\ op = "fetch_data"
    /\ pc = "done"
    /\ hb_lost
    /\ pages_fetched = 3
    /\ result.kind = "FetchResult"
    /\ result.success
    /\ result.record_count = 6

\* the steps of the activity's own coroutine
Flow ==
    \/ GetClient
    \/ CheckConnection
    \/ FetchLoop
    \/ DiscoverSchema
    \/ ReadFileDump
    \/ AcquireToken
    \/ SendRequest
    \/ RequestTimesOut
    \/ PageReturned
    \/ Close

\* the event loop runs the coroutine whenever it can take a step
LiveSpec == Spec /\ WF_vars(Flow)

\* C17: no operation blocks indefinitely: for finite max_pages and rate > 0
\* every connect, fetch_data and get_schema call that was started eventually
\* returns, even against a provider that offers a next cursor forever, fails
\* every attempt or does not answer.
EveryOperationReturns ==
    (pc = "get_client" /\ cfg.rate > 0) ~> Finished

\* C17 witness: fetch_data has returned from a provider that offers a cursor
\* forever, after max_pages pages, the last one on the third attempt.
EndlessProviderFetchReturnedWitness ==
    /\ op = "fetch_data"
    /\ pc = "done"
    /\ cfg.rate > 0
    /\ provider.endless
    /\ req.max_pages = 3
    /\ pages_fetched = 3
    /\ outcomes = <<"transport_error", "transport_error", "ok">>

\* the provider page that the k-th _fetch_page call of a fetch asks for when
\* each call continues from the cursor the call before it returned
ChainPage(k) ==
    IF provider = NoProvider THEN 1
    ELSE ((k - 1) % Len(provider.pages)) + 1

\* C18: after a page fetch of fetch_data has failed, fetch_data requests no
\* further page and re-requests no earlier one: the k-th _fetch_page call
\* asks for the k-th page of the listing, a failed call is the last call,
\* and every page before it was the subject of exactly one call.
NoRetryAcrossPages ==
    op = "fetch_data" =>
        /\ page_calls \in {page_returns, page_returns + 1}
        /\ (purpose = "page" /\ InRequest) =>
               /\ page_calls = pages_fetched + 1
               /\ PageOf(last_request) = ChainPage(page_calls)
        /\ last_error # NoError => Finished
        /\ (Finished /\ page_calls > page_returns) =>
               page_calls = pages_fetched + 1

\* C18 witness: the request for page 2 failed on all three attempts after
\* page 1 had been fetched with one request, and fetch_data has returned.
SecondPageRetriesExhaustedWitness ==
    /\ op = "fetch_data"
    /\ pc = "done"
    /\ req.max_pages = 3
    /\ page_calls = 2
    /\ page_returns = 1
    /\ outcomes = <<"transport_error", "transport_error", "transport_error">>
    /\ http_sent = 4
    /\ last_error.type = "TransportError"

\* C19: get_connector with a source_type that is not registered raises an
\* error whose message names the unknown type and the supported set; no
\* adapter is created, and the error leaves the calling activity as an
\* exception instead of a success=false result.
UnknownSourceTypeIsHardFailure ==
    (cfg.source_type \notin {"unipile", "x", "posthog", "rb2b"} /\ pc # "init") =>
        /\ pc = "done"
        /\ connector = "none"
        /\ bucket = NoBucket
        /\ ~client
        /\ close_calls = 0
        /\ result.kind = "raised"
        /\ result.error.type = "ValueError"
        /\ result.error.name = cfg.source_type
        /\ result.supported = {"unipile", "x", "posthog", "rb2b"}

\* C19 witness: the fetch activity was called for source_type "csv" and has
\* ended with the factory's error.
UnknownSourceTypeWitness ==
    /\ cfg.source_type = "csv"
    /\ op = "fetch_data"
    /\ pc = "done"
    /\ result.kind = "raised"
    /\ connector = "none"

\* C20: get_schema on any adapter fetches exactly one page; when that
\* sample holds no record it returns success=true with an empty field map,
\* and otherwise a field map with exactly the keys of the first record.
SchemaFromOneSamplePage ==
    (op = "get_schema" /\ connector = "live") =>
        /\ page_calls <= 1
        /\ page_calls = 1 => file_reads = 0
        /\ (pc = "done" /\ last_error = NoError /\ ~Cancelled) =>
               /\ page_calls + file_reads = 1
               /\ result.kind = "SourceSchema"
               /\ result.success
               /\ ExpectedPage(1) = <<>> => DOMAIN result.fields = {}
               /\ ExpectedPage(1) # <<>> =>
                      DOMAIN result.fields = DOMAIN ExpectedPage(1)[1]

\* C20 witness: get_schema has returned success with an empty field map
\* after the provider answered its one request with no items.
EmptySampleSchemaWitness ==
    /\ op = "get_schema"
    /\ pc = "done"
    /\ http_sent = 1
    /\ Len(provider.pages) >= 1
    /\ ~provider.pages[1]
    /\ result.kind = "SourceSchema"
    /\ result.success
    /\ DOMAIN result.fields = {}

\* a fetch_data call on the enrichment adapter in API mode whose
\* resource_type is not a key of ENRICHMENT_ENDPOINTS
UnknownEndpointFetch ==
    /\ op = "fetch_data"
    /\ connector = "live"
    /\ cfg.source_type = "rb2b"
    /\ ~FileMode(cfg)
    /\ req.resource_type \notin DOMAIN EnrichmentEndpoints

NoNetworkCall ==
    /\ http_sent = 0
    /\ acquired = 0
    /\ request_count = 0
    /\ bucket.tokens = bucket.capacity

FailedNaming(name) ==
    /\ result.kind = "FetchResult"
    /\ ~result.success
    /\ result.message.text # ""
    /\ result.message.error.name = name

\* C21 as stated: in API mode of the enrichment adapter, a fetch whose
\* resource_type is not a whitelisted endpoint name sends no HTTP request,
\* consumes no token, leaves request_count unchanged, and fetch_data returns
\* success=false with a message naming the unknown endpoint.
UnknownEndpointAlwaysFails ==
    UnknownEndpointFetch =>
        /\ NoNetworkCall
        /\ Finished => FailedNaming(req.resource_type)

\* C21 amended: the same fetch never reaches the network; when its credential
\* resolves and max_pages >= 1 it returns success=false with a message naming
\* the unknown endpoint, after one _fetch_page call.
UnknownEndpointFailsBeforeNetwork ==
    UnknownEndpointFetch =>
        /\ NoNetworkCall
        /\ (Finished /\ ~CredentialMissing(cfg) /\ req.max_pages >= 1) =>
               /\ FailedNaming(req.resource_type)
               /\ result.message.error.what = "unknown resource_type"
               /\ page_calls = 1
               /\ page_returns = 0
               /\ result.records = <<>>

\* C21 witness: a fetch of the unknown endpoint "posts", with the input
\* field of a known endpoint configured and the credential set, has returned.
UnknownEndpointRejectedWitness ==
    /\ UnknownEndpointFetch
    /\ pc = "done"
    /\ req.resource_type = "posts"
    /\ req.max_pages = 2
    /\ cfg.config_json.ip_address = "1.2.3.4"
    /\ credential_reads = 1
    /\ ~result.success
    /\ result.message.error.name = "posts"
    /\ http_sent = 0

\* ------------------------------------------------------------ config store
\* Config Access (packages/config-access): the activities over Redis.  A key
\* or an id is the sequence of its ":"-separated segments, so that the key
\* functions below concatenate exactly as the f-strings of keys.py do.
MaxViews == 2        \* views created by activate_view and clone_view
MaxPublishes == 3    \* publish_schema calls
MaxCalls == 6        \* config activity calls made on one store

\* str(uuid.uuid4()), a single segment: the n-th value drawn for a schema id,
\* for a view id and for a share token (values drawn never repeat)
SchemaUuids == <<"s1", "s2", "s3", "s4", "s5">>
ViewUuids == <<"w1", "w2", "w3", "w4", "w5">>
TokenUuids == <<"t1", "t2", "t3", "t4", "t5">>
SchemaUuid(n) == <<SchemaUuids[n]>>
ViewUuid(n) == <<ViewUuids[n]>>
TokenUuid(n) == <<TokenUuids[n]>>


\* f"v{version}"
VersionNames == <<"v1", "v2", "v3", "v4", "v5", "v6">>
VersionSeg(v) == VersionNames[v]

\* schema names and principals tried
SchemaNames == {<<"engagement">>, <<"funnel">>}
Principals == {"alice", "bob"}

\* keys.py
schema_key(schema_id) == <<"cfg", "schema">> \o schema_id
schema_version_key(schema_id, version) ==
    <<"cfg", "schema">> \o schema_id \o <<VersionSeg(version)>>
schema_idx_all == <<"cfg", "schema", "idx", "all">>
schema_idx_status(status) == <<"cfg", "schema", "idx", "status", status>>
schema_idx_name(name) == <<"cfg", "schema", "idx", "name">> \o name
view_key(view_id) == <<"cfg", "view">> \o view_id
view_idx_all == <<"cfg", "view", "idx", "all">>
view_idx_token(token) == <<"cfg", "view", "idx", "token">> \o token
view_idx_schema(schema_id) == <<"cfg", "view", "idx", "schema">> \o schema_id
view_idx_status(status) == <<"cfg", "view", "idx", "status", status>>
view_idx_clones(source_view_id) ==
    <<"cfg", "view", "idx", "clones">> \o source_view_id
perm_key(view_id) == <<"cfg", "perm">> \o view_id
perm_idx_principal(principal_id) ==
    <<"cfg", "perm", "idx", "principal", principal_id>>

\* Redis values: a string holding a JSON object or a bare id, a set, a sorted
\* set (its scores only order survey listings) and a hash
JsonStr(doc) == [t |-> "string", json |-> TRUE, doc |-> doc]
IdStr(id) == [t |-> "string", json |-> FALSE, doc |-> [id |-> id]]
SetVal(members) == [t |-> "set", members |-> members]
ZSetVal(members) == [t |-> "zset", members |-> members]
HashVal(fields) == [t |-> "hash", fields |-> fields]

TypeOf(s, key) == IF key \in DOMAIN s THEN s[key].t ELSE "none"

\* a command on a key holding another type: WRONGTYPE
WrongType(s, key, t) == TypeOf(s, key) \notin {"none", t}

Put(s, key, val) ==
    [x \in DOMAIN s \cup {key} |-> IF x = key THEN val ELSE s[x]]

\* Redis drops a set or hash when its last member is removed
Drop(s, key) == [x \in DOMAIN s \ {key} |-> s[x]]

\* client.get: None for a missing key
GetValue(s, key) == IF key \in DOMAIN s THEN s[key] ELSE [t |-> "none"]

\* "if not value": a missing key or an empty string
Found(val) == val.t = "string"

\* client.smembers
SMembers(s, key) == IF TypeOf(s, key) = "set" THEN s[key].members ELSE {}

\* client.hgetall
HGetAll(s, key) == IF TypeOf(s, key) = "hash" THEN s[key].fields ELSE <<>>

\* client.hget is not None
HExists(s, key, field) == field \in DOMAIN HGetAll(s, key)

\* the write commands of RedisAdapter
Cmd(c, key, member, val) == [c |-> c, key |-> key, member |-> member, val |-> val]
SetCmd(key, val) == Cmd("set", key, <<>>, val)
ZAddCmd(key, member) == Cmd("zadd", key, member, [t |-> "none"])
SAddCmd(key, member) == Cmd("sadd", key, member, [t |-> "none"])
SRemCmd(key, member) == Cmd("srem", key, member, [t |-> "none"])
HSetCmd(key, field, val) == Cmd("hset", key, field, val)
HDelCmd(key, field) == Cmd("hdel", key, field, [t |-> "none"])

CmdType(cmd) ==
    CASE cmd.c = "set" -> "string"
      [] cmd.c = "zadd" -> "zset"
      [] cmd.c \in {"sadd", "srem"} -> "set"
      [] OTHER -> "hash"

\* the effect of one write command on the keyspace
Exec(s, cmd) ==
    CASE cmd.c = "set" -> Put(s, cmd.key, cmd.val)
      [] cmd.c = "zadd" ->
           Put(s, cmd.key,
               ZSetVal((IF cmd.key \in DOMAIN s THEN s[cmd.key].members ELSE {})
                       \cup {cmd.member}))
      [] cmd.c = "sadd" ->
           Put(s, cmd.key, SetVal(SMembers(s, cmd.key) \cup {cmd.member}))
      [] cmd.c = "srem" ->
           IF SMembers(s, cmd.key) \ {cmd.member} = {}
           THEN Drop(s, cmd.key)
           ELSE Put(s, cmd.key, SetVal(SMembers(s, cmd.key) \ {cmd.member}))
      [] cmd.c = "hset" ->
           LET h == HGetAll(s, cmd.key)
           IN Put(s, cmd.key,
                  HashVal([f \in DOMAIN h \cup {cmd.member} |->
                              IF f = cmd.member THEN cmd.val ELSE h[f]]))
      [] OTHER ->
           LET h == HGetAll(s, cmd.key)
               left == DOMAIN h \ {cmd.member}
           IN IF left = {} THEN Drop(s, cmd.key)
              ELSE Put(s, cmd.key, HashVal([f \in left |-> h[f]]))

\* the awaited commands of an activity, in order; the first one that raises
\* ends the activity's try block and what was written before it stays
RECURSIVE Run(_, _)
Run(s, cmds) ==
    IF cmds = <<>> THEN [store |-> s, raised |-> FALSE]
    ELSE IF cmds[1].c # "set" /\ WrongType(s, cmds[1].key, CmdType(cmds[1]))
    THEN [store |-> s, raised |-> TRUE]
    ELSE Run(Exec(s, cmds[1]), Tail(cmds))

RECURSIVE SetToSeq(_)
SetToSeq(S) ==
    IF S = {} THEN <<>>
    ELSE LET x == CHOOSE y \in S : TRUE IN <<x>> \o SetToSeq(S \ {x})

RECURSIVE Flatten(_)
Flatten(seqs) == IF seqs = <<>> THEN <<>> ELSE Head(seqs) \o Flatten(Tail(seqs))

\* the ids a caller can pass: every id that completes the prefix to a key
\* holding a string (the ids of stored objects among them), one id that
\* completes it to a key of another type, and one that yields no key
Refs(s, prefix) ==
    LET under == {x \in DOMAIN s :
                     /\ Len(x) > Len(prefix)
                     /\ SubSeq(x, 1, Len(prefix)) = prefix}
        strings == {x \in under : s[x].t = "string"}
        others == under \ strings
        tried == strings
                   \cup (IF others = {} THEN {} ELSE {CHOOSE x \in others : TRUE})
    IN {SubSeq(key, Len(prefix) + 1, Len(key)) : key \in tried}
         \cup {<<"missing">>}

SchemaRefs(s) == Refs(s, <<"cfg", "schema">>)
ViewRefs(s) == Refs(s, <<"cfg", "view">>)

\* number of permission entries held in the perm:{view_id} hashes
PermCount(s) ==
    LET hashes == {key \in DOMAIN s : s[key].t = "hash"}
        entries == UNION {{<<key, f>> : f \in DOMAIN s[key].fields} : key \in hashes}
    IN Cardinality(entries)

\* what an activity returned, and what it did to the store
Returned(o, arg, who, success, message, id, n, after) ==
    [op |-> o, seq |-> kcall.seq + 1, arg |-> arg, who |-> who,
     success |-> success, message |-> message, id |-> id, n |-> n,
     changed |-> after # store,
     removed |-> PermCount(store) - PermCount(after)]

\* the "except Exception" branch of every config activity
Failed(o, arg, who, after) ==
    Returned(o, arg, who, FALSE, "failed", <<>>, 0, after)

\* client.get(key) raises on a key that holds no string
GetRaises(s, key) == WrongType(s, key, "string")

NextVersionStuck(existing) == GetOr(existing, "version", 0)

\* version = existing.get("version", 0) + 1
NextVersion(existing) == GetOr(existing, "version", 0) + 1

SchemaDoc(id, name, version, status) ==
    [id |-> id, name |-> name, version |-> version, status |-> status]

\* publish_schema: "Store current version + immutable snapshot" and
\* "Update indexes"
PublishCmds(schema_id, name, version) ==
    LET schema_json == JsonStr(SchemaDoc(schema_id, name, version, "draft"))
    IN <<SetCmd(schema_key(schema_id), schema_json),
         SetCmd(schema_version_key(schema_id, version), schema_json),
         SetCmd(schema_idx_name(name), IdStr(schema_id)),
         ZAddCmd(schema_idx_all, schema_id),
         SAddCmd(schema_idx_status("draft"), schema_id)>>

\* publish_schema
PublishSchema(name) ==
    /\ kcall.seq < MaxCalls
    /\ Len(publishes) < MaxPublishes
    /\ LET idx == GetValue(store, schema_idx_name(name))
           existing_id == IF Found(idx) THEN idx.doc.id ELSE <<>>
           current == IF Found(idx) THEN GetValue(store, schema_key(existing_id))
                      ELSE [t |-> "none"]
           bump == Found(idx) /\ Found(current)
       IN IF \/ GetRaises(store, schema_idx_name(name))
             \/ (Found(idx) /\ GetRaises(store, schema_key(existing_id)))
             \/ (bump /\ ~current.json)
          THEN /\ kcall' = Failed("publish_schema", name, "", store)
               /\ publishes' =
                    Append(publishes, [name |-> name, success |-> FALSE,
                                       schema_id |-> <<>>, version |-> 0])
               /\ UNCHANGED <<store, uuids>>
          ELSE /\ LET schema_id == IF bump THEN existing_id
                                   ELSE SchemaUuid(uuids.schemas + 1)
                      version == IF bump THEN NextVersion(current.doc) ELSE 1
                      run == Run(store, PublishCmds(schema_id, name, version))
                  IN /\ store' = run.store
                     /\ uuids' = IF bump THEN uuids
                                 ELSE [uuids EXCEPT !.schemas = @ + 1]
                     /\ kcall' =
                          IF run.raised
                          THEN Failed("publish_schema", name, "", run.store)
                          ELSE Returned("publish_schema", name, "", TRUE,
                                        "published", schema_id, version, run.store)
                     /\ publishes' =
                          Append(publishes,
                                 [name |-> name, success |-> ~run.raised,
                                  schema_id |-> IF run.raised THEN <<>> ELSE schema_id,
                                  version |-> IF run.raised THEN 0 ELSE version])
    /\ UNCHANGED <<bvars, cvars, dvars, pvars>>

ViewDoc(id, schema_id, token, cloned_from) ==
    [id |-> id, schema_id |-> schema_id, status |-> "active",
     share_token |-> token, cloned_from |-> cloned_from]

\* "if not schema_json: return ...(success=False, ...not found...)", the
\* parent check of activate_view, grant_access, clone_view, archive_schema
ParentFound(val) == Found(val)

\* activate_view
ActivateView(schema_id) ==
    /\ kcall.seq < MaxCalls
    /\ LET schema_val == GetValue(store, schema_key(schema_id)) IN
       IF GetRaises(store, schema_key(schema_id))
       THEN /\ kcall' = Failed("activate_view", schema_id, "", store)
            /\ UNCHANGED <<store, uuids>>
       ELSE IF ~ParentFound(schema_val)
       THEN /\ kcall' = Returned("activate_view", schema_id, "", FALSE,
                                 "Schema not found", <<>>, 0, store)
            /\ UNCHANGED <<store, uuids>>
       ELSE /\ uuids.views < MaxViews
            /\ LET view_id == ViewUuid(uuids.views + 1)
                   share_token == TokenUuid(uuids.views + 1)
                   run == Run(store,
                              <<SetCmd(view_key(view_id),
                                       JsonStr(ViewDoc(view_id, schema_id,
                                                       share_token, <<>>))),
                                SetCmd(view_idx_token(share_token), IdStr(view_id)),
                                ZAddCmd(view_idx_all, view_id),
                                SAddCmd(view_idx_schema(schema_id), view_id),
                                SAddCmd(view_idx_status("active"), view_id)>>)
               IN /\ store' = run.store
                  /\ uuids' = [uuids EXCEPT !.views = @ + 1]
                  /\ kcall' =
                       IF run.raised
                       THEN Failed("activate_view", schema_id, "", run.store)
                       ELSE Returned("activate_view", schema_id, "", TRUE,
                                     "activated", view_id, 0, run.store)
    /\ UNCHANGED <<publishes, bvars, cvars, dvars, pvars>>

PermDoc(view_id, principal_id) ==
    [view_id |-> view_id, principal_id |-> principal_id, permission |-> "read"]

\* grant_access
GrantAccess(view_id, principal_id) ==
    /\ kcall.seq < MaxCalls
    /\ LET view_val == GetValue(store, view_key(view_id)) IN
       IF GetRaises(store, view_key(view_id))
       THEN /\ kcall' = Failed("grant_access", view_id, principal_id, store)
            /\ UNCHANGED store
       ELSE IF ~ParentFound(view_val)
       THEN /\ kcall' = Returned("grant_access", view_id, principal_id, FALSE,
                                 "View not found", <<>>, 0, store)
            /\ UNCHANGED store
       ELSE LET run == Run(store,
                           <<HSetCmd(perm_key(view_id), principal_id,
                                     PermDoc(view_id, principal_id)),
                             SAddCmd(perm_idx_principal(principal_id), view_id)>>)
            IN /\ store' = run.store
               /\ kcall' =
                    IF run.raised
                    THEN Failed("grant_access", view_id, principal_id, run.store)
                    ELSE Returned("grant_access", view_id, principal_id, TRUE,
                                  "Access granted", <<>>, 0, run.store)
    /\ UNCHANGED <<uuids, publishes, bvars, cvars, dvars, pvars>>

NoCascade(s, view_id) == {}

\* clone_ids = await client.smembers(view_idx_clones(request.view_id))
CloneIds(s, view_id) == SMembers(s, view_idx_clones(view_id))

\* revoke_access, one view: hget, and hdel + srem when an entry is there
RevokeOn(s, view_id, principal_id) ==
    IF HExists(s, perm_key(view_id), principal_id)
    THEN <<HDelCmd(perm_key(view_id), principal_id),
           SRemCmd(perm_idx_principal(principal_id), view_id)>>
    ELSE <<>>

\* revoke_access
RevokeAccess(view_id, principal_id) ==
    /\ kcall.seq < MaxCalls
    /\ IF WrongType(store, perm_key(view_id), "hash")
       THEN /\ kcall' = Failed("revoke_access", view_id, principal_id, store)
            /\ UNCHANGED store
       ELSE LET clone_ids == SetToSeq(CloneIds(store, view_id))
                cmds == RevokeOn(store, view_id, principal_id)
                          \o Flatten([i \in 1..Len(clone_ids) |->
                                         RevokeOn(store, clone_ids[i], principal_id)])
                run == Run(store, cmds)
            IN /\ store' = run.store
               /\ kcall' =
                    IF run.raised
                    THEN Failed("revoke_access", view_id, principal_id, run.store)
                    ELSE Returned("revoke_access", view_id, principal_id, TRUE,
                                  "Revoked", <<>>, Len(cmds) \div 2, run.store)
    /\ UNCHANGED <<uuids, publishes, bvars, cvars, dvars, pvars>>

\* clone_view: "Inherit permissions from source"
InheritCmds(s, source_view_id, clone_id) ==
    LET source_perms == HGetAll(s, perm_key(source_view_id))
        who == SetToSeq(DOMAIN source_perms)
    IN Flatten([i \in 1..Len(who) |->
                   <<HSetCmd(perm_key(clone_id), who[i],
                             [source_perms[who[i]] EXCEPT !.view_id = clone_id]),
                     SAddCmd(perm_idx_principal(who[i]), clone_id)>>])

\* clone_view
CloneView(source_view_id) ==
    /\ kcall.seq < MaxCalls
    /\ LET source_val == GetValue(store, view_key(source_view_id)) IN
       IF GetRaises(store, view_key(source_view_id))
       THEN /\ kcall' = Failed("clone_view", source_view_id, "", store)
            /\ UNCHANGED <<store, uuids>>
       ELSE IF ~ParentFound(source_val)
       THEN /\ kcall' = Returned("clone_view", source_view_id, "", FALSE,
                                 "Source view not found", <<>>, 0, store)
            /\ UNCHANGED <<store, uuids>>
       ELSE IF ~source_val.json
       THEN \* json.loads(source_json) raises on a value that is no JSON
            /\ kcall' = Failed("clone_view", source_view_id, "", store)
            /\ UNCHANGED <<store, uuids>>
       ELSE /\ uuids.views < MaxViews
            /\ LET source == source_val.doc
                   clone_id == ViewUuid(uuids.views + 1)
                   clone_token == TokenUuid(uuids.views + 1)
                   source_schema == GetOr(source, "schema_id", <<>>)
                   run == Run(store,
                              <<SetCmd(view_key(clone_id),
                                       JsonStr(ViewDoc(clone_id, source_schema,
                                                       clone_token, source_view_id))),
                                SetCmd(view_idx_token(clone_token), IdStr(clone_id)),
                                ZAddCmd(view_idx_all, clone_id),
                                SAddCmd(view_idx_schema(source_schema), clone_id),
                                SAddCmd(view_idx_status("active"), clone_id),
                                SAddCmd(view_idx_clones(source_view_id), clone_id)>>
                              \o InheritCmds(store, source_view_id, clone_id))
               IN /\ store' = run.store
                  /\ uuids' = [uuids EXCEPT !.views = @ + 1]
                  /\ kcall' =
                       IF run.raised
                       THEN Failed("clone_view", source_view_id, "", run.store)
                       ELSE Returned("clone_view", source_view_id, "", TRUE,
                                     "cloned", clone_id, 0, run.store)
    /\ UNCHANGED <<publishes, bvars, cvars, dvars, pvars>>

\* archive_schema
ArchiveSchema(schema_id) ==
    /\ kcall.seq < MaxCalls
    /\ LET schema_val == GetValue(store, schema_key(schema_id)) IN
       IF GetRaises(store, schema_key(schema_id))
       THEN /\ kcall' = Failed("archive_schema", schema_id, "", store)
            /\ UNCHANGED store
       ELSE IF ~ParentFound(schema_val)
       THEN /\ kcall' = Returned("archive_schema", schema_id, "", FALSE,
                                 "Schema not found", <<>>, 0, store)
            /\ UNCHANGED store
       ELSE IF \/ WrongType(store, view_idx_schema(schema_id), "set")
               \/ ~schema_val.json
       THEN \* smembers or json.loads(schema_json) raises
            /\ kcall' = Failed("archive_schema", schema_id, "", store)
            /\ UNCHANGED store
       ELSE LET dep_count == Cardinality(SMembers(store, view_idx_schema(schema_id)))
                old_status == GetOr(schema_val.doc, "status", "draft")
                run == Run(store,
                           <<SetCmd(schema_key(schema_id),
                                    JsonStr([schema_val.doc EXCEPT !.status = "archived"])),
                             SRemCmd(schema_idx_status(old_status), schema_id),
                             SAddCmd(schema_idx_status("archived"), schema_id)>>)
            IN /\ store' = run.store
               /\ kcall' =
                    IF run.raised
                    THEN Failed("archive_schema", schema_id, "", run.store)
                    ELSE Returned("archive_schema", schema_id, "", TRUE,
                                  "Schema archived", <<>>, dep_count, run.store)
    /\ UNCHANGED <<uuids, publishes, bvars, cvars, dvars, pvars>>

\* the stores other than the config store, and the connector side, at rest
OnlyConfigStore ==
    /\ db = NoDb
    /\ dcalls = <<>>
    /\ inflight = NoneInFlight
    /\ bucket = NoBucket
    /\ now = 0
    /\ IdleBucketSide
    /\ ConnectorIdle

\* schemas: an empty store, on which schemas are published and archived
SchemaInit ==
    /\ store = <<>>
    /\ uuids = NoUuids
    /\ publishes = <<>>
    /\ kcall = NoCall
    /\ OnlyConfigStore

SchemaNext ==
    \/ \E name \in SchemaNames : PublishSchema(name)
    \/ \E schema_id \in SchemaRefs(store) : ArchiveSchema(schema_id)

SchemaSpec == SchemaInit /\ [][SchemaNext]_vars

\* publish_schema as the store sees it: one awaited command per step, with
\* the commands of another worker's call free to run between any two of them
InFlight(c) == inflight[c].at \in {"get_idx_name", "get_current", "write"}

\* the "return PublishSchemaResult(...)" of a call, in either branch
PublishReturn(c, call, success, after) ==
    /\ inflight' =
         [inflight EXCEPT ![c] = [call EXCEPT !.at = "returned",
                                              !.success = success,
                                              !.wrote = @ \/ after # store]]
    /\ publishes' =
         Append(publishes,
                [name |-> call.name, success |-> success,
                 schema_id |-> IF success THEN call.schema_id ELSE <<>>,
                 version |-> IF success THEN call.version ELSE 0])
    /\ kcall' =
         [op |-> "publish_schema", seq |-> kcall.seq + 1, arg |-> call.name,
          who |-> c, success |-> success,
          message |-> IF success THEN "published" ELSE "failed",
          id |-> IF success THEN call.schema_id ELSE <<>>,
          n |-> IF success THEN call.version ELSE 0,
          changed |-> call.wrote \/ after # store, removed |-> 0]

\* publish_schema calls started so far
RECURSIVE SumBegun(_)
SumBegun(S) ==
    IF S = {} THEN 0
    ELSE LET c == CHOOSE d \in S : TRUE IN inflight[c].began + SumBegun(S \ {c})
CallsBegun == SumBegun(Callers)

\* a worker picks up a publish_schema task
PublishBegin(c, name) ==
    /\ ~InFlight(c)
    /\ CallsBegun < MaxPublishes
    /\ LET others == {d \in Callers \ {c} : InFlight(d)} IN
       inflight' =
         [d \in Callers |->
            IF d = c
            THEN [NotCalling EXCEPT !.at = "get_idx_name", !.name = name,
                                    !.overlapped = others # {},
                                    !.began = inflight[c].began + 1]
            ELSE IF d \in others THEN [inflight[d] EXCEPT !.overlapped = TRUE]
            ELSE inflight[d]]
    /\ UNCHANGED <<kvars, bvars, cvars, dvars>>

\* "version = 1; schema_id = str(uuid.uuid4())"
PublishAsNew(call) ==
    [call EXCEPT !.at = "write", !.cmd = 1, !.version = 1,
                 !.schema_id = SchemaUuid(uuids.schemas + 1)]

\* "existing_id = await client.get(schema_idx_name(request.name))"
PublishGetIdxName(c) ==
    /\ inflight[c].at = "get_idx_name"
    /\ LET call == inflight[c]
           idx == GetValue(store, schema_idx_name(call.name))
       IN IF GetRaises(store, schema_idx_name(call.name))
          THEN /\ PublishReturn(c, call, FALSE, store)
               /\ UNCHANGED <<store, uuids>>
          ELSE IF Found(idx)
          THEN /\ inflight' =
                    [inflight EXCEPT ![c] = [call EXCEPT !.at = "get_current",
                                                         !.existing_id = idx.doc.id]]
               /\ UNCHANGED kvars
          ELSE /\ inflight' = [inflight EXCEPT ![c] = PublishAsNew(call)]
               /\ uuids' = [uuids EXCEPT !.schemas = @ + 1]
               /\ UNCHANGED <<store, publishes, kcall>>
    /\ UNCHANGED <<bvars, cvars, dvars>>

\* "existing_json = await client.get(schema_key(existing_id))"
PublishGetCurrent(c) ==
    /\ inflight[c].at = "get_current"
    /\ LET call == inflight[c]
           current == GetValue(store, schema_key(call.existing_id))
       IN IF \/ GetRaises(store, schema_key(call.existing_id))
             \/ (Found(current) /\ ~current.json)
          THEN /\ PublishReturn(c, call, FALSE, store)
               /\ UNCHANGED <<store, uuids>>
          ELSE IF Found(current)
          THEN /\ inflight' =
                    [inflight EXCEPT ![c] =
                       [call EXCEPT !.at = "write", !.cmd = 1,
                                    !.version = NextVersion(current.doc),
                                    !.schema_id = call.existing_id]]
               /\ UNCHANGED kvars
          ELSE /\ inflight' = [inflight EXCEPT ![c] = PublishAsNew(call)]
               /\ uuids' = [uuids EXCEPT !.schemas = @ + 1]
               /\ UNCHANGED <<store, publishes, kcall>>
    /\ UNCHANGED <<bvars, cvars, dvars>>

\* the next "await client.set/zadd/sadd(...)" of the call, and its return
\* after the last one
PublishWrite(c) ==
    /\ inflight[c].at = "write"
    /\ LET call == inflight[c]
           cmds == PublishCmds(call.schema_id, call.name, call.version)
           run == Run(store, <<cmds[call.cmd]>>)
       IN /\ store' = run.store
          /\ IF run.raised THEN PublishReturn(c, call, FALSE, run.store)
             ELSE IF call.cmd = Len(cmds) THEN PublishReturn(c, call, TRUE, run.store)
             ELSE /\ inflight' =
                       [inflight EXCEPT ![c] =
                          [call EXCEPT !.cmd = @ + 1,
                                       !.wrote = @ \/ run.store # store]]
                  /\ UNCHANGED <<publishes, kcall>>
    /\ UNCHANGED <<uuids, bvars, cvars, dvars>>

\* concurrent publishing: an empty store and two workers of the task queue
ConcurrentInit == SchemaInit

ConcurrentNext ==
    \/ \E c \in Callers, name \in SchemaNames : PublishBegin(c, name)
    \/ \E c \in Callers : PublishGetIdxName(c)
    \/ \E c \in Callers : PublishGetCurrent(c)
    \/ \E c \in Callers : PublishWrite(c)

ConcurrentSpec == ConcurrentInit /\ [][ConcurrentNext]_vars

\* the name under which the schema of the views is published
ViewSchemaName == <<"engagement">>

\* views and access: the store right after a first publish_schema call
ViewInit ==
    /\ store = Run(<<>>, PublishCmds(SchemaUuid(1), ViewSchemaName, 1)).store
    /\ uuids = [schemas |-> 1, views |-> 0]
    /\ publishes = <<[name |-> ViewSchemaName, success |-> TRUE,
                      schema_id |-> SchemaUuid(1), version |-> 1]>>
    /\ kcall = [op |-> "publish_schema", seq |-> 1, arg |-> ViewSchemaName, who |-> "",
                success |-> TRUE, message |-> "published",
                id |-> SchemaUuid(1), n |-> 1, changed |-> TRUE, removed |-> 0]
    /\ OnlyConfigStore

ViewNext ==
    \/ \E schema_id \in SchemaRefs(store) : ActivateView(schema_id)
    \/ \E view_id \in ViewRefs(store), who \in Principals : GrantAccess(view_id, who)
    \/ \E view_id \in ViewRefs(store), who \in Principals : RevokeAccess(view_id, who)
    \/ \E view_id \in ViewRefs(store) : CloneView(view_id)
    \/ \E schema_id \in SchemaRefs(store) : ArchiveSchema(schema_id)

ViewSpec == ViewInit /\ [][ViewNext]_vars

\* ----------------------------------------------------- claims: config store
\* the successful publish_schema calls made with one name, in call order
PublishesOf(name) ==
    LET Test(p) == p.name = name /\ p.success
    IN SelectSeq(publishes, Test)

\* C22: publishing under a name that already exists makes a new version of
\* the same schema: of the successful publish_schema calls made with one
\* name, the k-th returned version k, all returned the same schema_id, and
\* the current definition stored under that id has the version of the last.
SchemaVersionsIncrement ==
    \A name \in SchemaNames :
        LET ps == PublishesOf(name) IN
        /\ \A k \in 1..Len(ps) :
             /\ ps[k].version = k
             /\ ps[k].schema_id = ps[1].schema_id
        /\ Len(ps) >= 1 =>
             LET current == GetValue(store, schema_key(ps[1].schema_id)) IN
             /\ current.t = "string"
             /\ current.json
             /\ current.doc.name = name
             /\ current.doc.version = Len(ps)

\* C22 witness: three publish_schema calls with the same name have returned,
\* the schema having been archived in between, and version 3 is current.
ThreePublishesWitness ==
    /\ Len(PublishesOf(<<"engagement">>)) = 3
    /\ publishes[3].version = 3
    /\ SchemaUuid(1) \in SMembers(store, schema_idx_status("archived"))
    /\ store[schema_key(SchemaUuid(1))].doc.version = 3

\* the ids of the stored views that were cloned from view_id
ClonesOf(view_id) ==
    {SubSeq(key, 3, Len(key)) :
        key \in {x \in DOMAIN store :
                    /\ Len(x) >= 3
                    /\ SubSeq(x, 1, 2) = <<"cfg", "view">>
                    /\ store[x].t = "string"
                    /\ store[x].json
                    /\ store[x].doc.cloned_from = view_id}}

\* C23: after revoke_access(view, principal) has returned success, the
\* principal has no permission entry on the view nor on any view cloned from
\* it, the principal's view index lists none of those views, and
\* revoked_count is the number of permission entries the call removed.
RevokeCascadesToClones ==
    (kcall.op = "revoke_access" /\ kcall.success) =>
        /\ \A v \in {kcall.arg} \cup ClonesOf(kcall.arg) :
             /\ ~HExists(store, perm_key(v), kcall.who)
             /\ v \notin SMembers(store, perm_idx_principal(kcall.who))
        /\ kcall.n = kcall.removed

\* C23 witness: a principal granted access on a view, which was then cloned,
\* has been revoked on the parent: two entries went (parent and clone), and
\* the grant of the other principal on the parent is still there.
RevokedOnParentAndCloneWitness ==
    /\ kcall.op = "revoke_access"
    /\ kcall.success
    /\ kcall.arg = ViewUuid(1)
    /\ ClonesOf(ViewUuid(1)) = {ViewUuid(2)}
    /\ kcall.n = 2
    /\ \E other \in Principals \ {kcall.who} :
         HExists(store, perm_key(ViewUuid(1)), other)

\* the schema ids publish_schema has handed out
KnownSchemas == {SchemaUuid(i) : i \in 1..uuids.schemas}

\* the view ids activate_view and clone_view have handed out
KnownViews == {ViewUuid(i) : i \in 1..uuids.views}

\* the last call named a parent object that does not exist
UnknownParent ==
    \/ /\ kcall.op \in {"activate_view", "archive_schema"}
       /\ kcall.arg \notin KnownSchemas
    \/ /\ kcall.op \in {"grant_access", "clone_view"}
       /\ kcall.arg \notin KnownViews

\* C24: activate_view or archive_schema with an unknown schema_id, and
\* grant_access or clone_view with an unknown view id, return success=false
\* and leave the store as it was.
UnknownParentRejected ==
    UnknownParent => (~kcall.success /\ ~kcall.changed)

\* ---------------------------------------------------------------------
\* data access: identify_contact and catalog_content on the relational store
\* ---------------------------------------------------------------------

MaxDataCalls == 3

\* rows of unlock.sources and unlock.channels; no handler adds or removes any
SourceKeys == {"unipile", "x"}
ChannelKeys == {"linkedin"}

\* request values: registered keys and one key nobody registered; "" is None
RequestSourceKeys == SourceKeys \cup {"ghost"}
RequestChannelKeys == ChannelKeys \cup {"", "ghost"}
ExternalIds == {"e1", "e2"}
PlatformUserIds == {"", "u1"}
Usernames == {"", "jane"}
HistoryRows == {0, 1}

\* _resolve_source: the source row, or None
ResolveSource(d, source_key) ==
    IF source_key \in d.sources THEN source_key ELSE ""

\* _resolve_channel
ResolveChannel(d, channel_key) ==
    IF channel_key \in d.channels THEN channel_key ELSE ""

FindMappingAnyType(d, source_id, external_id, entity_type) ==
    {m \in d.mappings : m.source_id = source_id /\ m.external_id = external_id}

\* _find_mapping: the rows with this source, external id and entity type
FindMapping(d, source_id, external_id, entity_type) ==
    {m \in d.mappings : /\ m.source_id = source_id
                        /\ m.external_id = external_id
                        /\ m.entity_type = entity_type}

\* fetchone()[0] of a non-empty result
InternalId(rows) == (CHOOSE m \in rows : TRUE).internal_id

\* a source_mappings row with these three values is in the table
Mapped(d, source_id, external_id, entity_type) ==
    \E m \in d.mappings : /\ m.source_id = source_id
                          /\ m.external_id = external_id
                          /\ m.entity_type = entity_type

\* UniqueConstraint("source_id", "external_id", "entity_type")
MappingConflict(d, source_id, external_id, entity_type) ==
    Mapped(d, source_id, external_id, entity_type)

\* UniqueConstraint("channel_id", "platform_user_id"); NULLs never conflict
IdentityConflict(d, channel_id, platform_user_id) ==
    /\ platform_user_id # ""
    /\ \E i \in d.identities : /\ i.channel_id = channel_id
                               /\ i.platform_user_id = platform_user_id

\* one data-access call and what it returned
DataCall(o, source_key, external_id, success, id, is_new, before, after) ==
    [op |-> o, source_key |-> source_key, external_id |-> external_id,
     success |-> success, id |-> id, is_new |-> is_new,
     mapped |-> Mapped(before, source_key, external_id, "person"),
     changed |-> after # before]

\* identify_contact: one transaction; an exception rolls every insert back
IdentifyContact(source_key, external_id, channel_key, platform_user_id, username, history) ==
    /\ Len(dcalls) < MaxDataCalls
    /\ LET source_id == ResolveSource(db, source_key)
           channel_id == IF channel_key # ""
                         THEN ResolveChannel(db, channel_key) ELSE ""
           existing == FindMapping(db, source_id, external_id, "person")
           person_id == db.minted + 1
           with_identity == channel_id # "" /\ (platform_user_id # "" \/ username # "")
           violates ==
               \/ MappingConflict(db, source_id, external_id, "person")
               \/ /\ with_identity
                  /\ IdentityConflict(db, channel_id, platform_user_id)
           created ==
               [db EXCEPT
                  !.minted = person_id,
                  !.people = @ \cup {person_id},
                  !.mappings = @ \cup {[source_id |-> source_id,
                                        external_id |-> external_id,
                                        entity_type |-> "person",
                                        internal_id |-> person_id]},
                  !.identities =
                      IF with_identity
                      THEN @ \cup {[person_id |-> person_id,
                                    channel_id |-> channel_id,
                                    platform_user_id |-> platform_user_id]}
                      ELSE @,
                  !.details = @ + history]
       IN IF source_id = ""
          THEN /\ dcalls' = Append(dcalls, DataCall("identify_contact", source_key,
                                                    external_id, FALSE, 0, FALSE, db, db))
               /\ UNCHANGED db
          ELSE IF existing # {}
          THEN /\ dcalls' = Append(dcalls, DataCall("identify_contact", source_key,
                                                    external_id, TRUE,
                                                    InternalId(existing), FALSE, db, db))
               /\ UNCHANGED db
          ELSE IF violates
          THEN /\ dcalls' = Append(dcalls, DataCall("identify_contact", source_key,
                                                    external_id, FALSE, 0, FALSE, db, db))
               /\ UNCHANGED db
          ELSE /\ db' = created
               /\ dcalls' = Append(dcalls, DataCall("identify_contact", source_key,
                                                    external_id, TRUE, person_id,
                                                    TRUE, db, created))
    /\ UNCHANGED <<bvars, cvars, kvars, pvars>>

\* catalog_content with one record in request.records
CatalogContent(source_key, channel_key, external_id) ==
    /\ Len(dcalls) < MaxDataCalls
    /\ LET source_id == ResolveSource(db, source_key)
           channel_id == ResolveChannel(db, channel_key)
           existing == IF external_id # ""
                       THEN FindMapping(db, source_id, external_id, "content")
                       ELSE {}
           content_id == db.minted + 1
           violates ==
               /\ external_id # ""
               /\ MappingConflict(db, source_id, external_id, "content")
           created ==
               [db EXCEPT
                  !.minted = content_id,
                  !.content = @ \cup {content_id},
                  !.mappings =
                      IF external_id # ""
                      THEN @ \cup {[source_id |-> source_id,
                                    external_id |-> external_id,
                                    entity_type |-> "content",
                                    internal_id |-> content_id]}
                      ELSE @]
       IN IF source_id = ""
          THEN /\ dcalls' = Append(dcalls, DataCall("catalog_content", source_key,
                                                    external_id, FALSE, 0, FALSE, db, db))
               /\ UNCHANGED db
          ELSE IF channel_id = "" \/ existing # {}
          THEN /\ dcalls' = Append(dcalls, DataCall("catalog_content", source_key,
                                                    external_id, TRUE, 0, FALSE, db, db))
               /\ UNCHANGED db
          ELSE IF violates
          THEN /\ dcalls' = Append(dcalls, DataCall("catalog_content", source_key,
                                                    external_id, FALSE, 0, FALSE, db, db))
               /\ UNCHANGED db
          ELSE /\ db' = created
               /\ dcalls' = Append(dcalls, DataCall("catalog_content", source_key,
                                                    external_id, TRUE, content_id,
                                                    TRUE, db, created))
    /\ UNCHANGED <<bvars, cvars, kvars, pvars>>

\* the stores other than the relational store, and the connector side, at rest
OnlyDataStore ==
    /\ store = <<>>
    /\ uuids = NoUuids
    /\ publishes = <<>>
    /\ kcall = NoCall
    /\ inflight = NoneInFlight
    /\ bucket = NoBucket
    /\ now = 0
    /\ IdleBucketSide
    /\ ConnectorIdle

\* the migrated database: sources and channels registered, no entity yet
DataInit ==
    /\ db = [NoDb EXCEPT !.sources = SourceKeys, !.channels = ChannelKeys]
    /\ dcalls = <<>>
    /\ OnlyDataStore

DataNext ==
    \/ \E source_key \in RequestSourceKeys, external_id \in ExternalIds,
          channel_key \in RequestChannelKeys, platform_user_id \in PlatformUserIds,
          username \in Usernames, history \in HistoryRows :
          IdentifyContact(source_key, external_id, channel_key, platform_user_id,
                          username, history)
    \/ \E source_key \in RequestSourceKeys, channel_key \in ChannelKeys \cup {"ghost"},
          external_id \in ExternalIds \cup {""} :
          CatalogContent(source_key, channel_key, external_id)

DataSpec == DataInit /\ [][DataNext]_vars

\* ------------------------------------------------- claims: data access
IdentifyCalls == {i \in 1..Len(dcalls) : dcalls[i].op = "identify_contact"}

\* the identify_contact calls made with this (source_key, external_id)
CallsOn(source_key, external_id) ==
    {i \in IdentifyCalls : /\ dcalls[i].source_key = source_key
                           /\ dcalls[i].external_id = external_id}

\* the person mappings the table holds for the pair
PersonMappings(source_key, external_id) ==
    {m \in db.mappings : /\ m.source_id = source_key
                         /\ m.external_id = external_id
                         /\ m.entity_type = "person"}

\* a call for a pair that already had a person mapping returned the mapped
\* person, is_new=false, and inserted nothing
MappedPairReturnsExisting ==
    \A i \in IdentifyCalls :
        dcalls[i].mapped =>
            /\ dcalls[i].success
            /\ ~dcalls[i].is_new
            /\ ~dcalls[i].changed
            /\ \E m \in PersonMappings(dcalls[i].source_key, dcalls[i].external_id) :
                 dcalls[i].id = m.internal_id

\* C25 as stated: a call for an already mapped pair returns the mapped
\* person with is_new=false and inserts nothing; the calls made with one
\* (source_key, external_id) created exactly one person and one mapping and
\* all returned the same person_id.
IdentifyContactIdempotent ==
    /\ MappedPairReturnsExisting
    /\ \A s \in RequestSourceKeys, e \in ExternalIds :
         CallsOn(s, e) # {} =>
            /\ Cardinality({i \in CallsOn(s, e) : dcalls[i].is_new}) = 1
            /\ Cardinality(PersonMappings(s, e)) = 1
            /\ \A i, j \in CallsOn(s, e) : dcalls[i].id = dcalls[j].id

\* C25, amended: a call for an already mapped pair returns the mapped person
\* with is_new=false and inserts nothing; the calls made with one
\* (source_key, external_id) created at most one person and one mapping,
\* exactly one of each once a call has succeeded, and every successful call
\* returned the same person_id, that of the mapping.
IdentifyContactIdempotentOnceMapped ==
    /\ MappedPairReturnsExisting
    /\ Cardinality(db.people) = Cardinality({i \in IdentifyCalls : dcalls[i].is_new})
    /\ \A s \in RequestSourceKeys, e \in ExternalIds :
         LET succeeded == {i \in CallsOn(s, e) : dcalls[i].success} IN
         /\ Cardinality({i \in CallsOn(s, e) : dcalls[i].is_new}) <= 1
         /\ Cardinality(PersonMappings(s, e)) <= 1
         /\ succeeded # {} =>
              /\ Cardinality({i \in CallsOn(s, e) : dcalls[i].is_new}) = 1
              /\ Cardinality(PersonMappings(s, e)) = 1
              /\ \A i \in succeeded :
                   /\ dcalls[i].id \in db.people
                   /\ \A m \in PersonMappings(s, e) : dcalls[i].id = m.internal_id

\* C25 witness: a pair whose external id is also that of a catalogued content
\* item was identified twice: the first call created the person, the second
\* found it.
IdentifiedTwiceWitness ==
    \E i, j \in IdentifyCalls :
        /\ i < j
        /\ dcalls[i].source_key = dcalls[j].source_key
        /\ dcalls[i].external_id = dcalls[j].external_id
        /\ dcalls[i].is_new
        /\ dcalls[j].success /\ ~dcalls[j].is_new
        /\ dcalls[j].id = dcalls[i].id
        /\ \E m \in db.mappings :
             /\ m.source_id = dcalls[i].source_key
             /\ m.external_id = dcalls[i].external_id
             /\ m.entity_type = "content"

\* ---------------------------------------------- claims: connectors, continued
\* the cursor an HTTP page request carries, in whichever place the adapter
\* puts it: the URL itself, the cursor parameter or the offset parameter
CursorSent(r) ==
    IF Truthy(r.verbatim) THEN r.verbatim
    ELSE IF Truthy(r.cursor) THEN r.cursor
    ELSE IF Truthy(r.offset) THEN r.offset
    ELSE NoCursor

\* C26: while a page fetch of fetch_data is under way it is the only one
\* (every earlier _fetch_page call has returned); the first is made with no
\* cursor, every later one with the next cursor the previous fetch returned,
\* and the request carries that cursor unchanged.
CursorChainsPages ==
    (op = "fetch_data" /\ purpose = "page" /\ InRequest) =>
        /\ page_calls = page_returns + 1
        /\ page_returns = pages_fetched
        /\ pages_fetched = 0 => cursor = NoCursor
        /\ pages_fetched >= 1 => (Truthy(cursor) /\ cursor = page_result[2])
        /\ CursorSent(last_request) = cursor

\* C26 witness: the request for the third page is being sent with the
\* cursor the second page returned.
ThirdPageCursorWitness ==
    /\ op = "fetch_data"
    /\ purpose = "page"
    /\ pc = "send"
    /\ pages_fetched = 2
    /\ Truthy(page_result[2])
    /\ CursorSent(last_request) = page_result[2]
    /\ page_result[2] # NoCursor

\* request_count, the acquire() calls that returned and the HTTP attempts
\* started agree, but for the attempt that is counted and about to be sent
RequestCountMatches ==
    /\ request_count = acquired
    /\ http_sent = request_count - (IF pc = "send" THEN 1 ELSE 0)

\* one step of the adapter keeps the order acquire, count, send
CountedBetweenAcquireAndSend ==
    /\ request_count' >= request_count
    /\ request_count' # request_count =>
          /\ pc = "acquire" /\ pc' = "send"
          /\ request_count' = request_count + 1
          /\ bucket'.tokens = Refill(bucket, now').tokens - OneToken
          /\ http_sent' = http_sent
    /\ http_sent' # http_sent =>
          /\ pc = "send"
          /\ http_sent' = http_sent + 1
          /\ request_count' = request_count

\* C27: every attempt of _request_with_retry completes acquire() (one token
\* taken), then adds one to request_count, then sends; request_count equals
\* the acquire() calls that returned and the HTTP attempts started, and no
\* step, close() included, lowers it.
RequestCountCountsAttempts ==
    []RequestCountMatches /\ [][CountedBetweenAcquireAndSend]_vars

\* C27 witness: one logical request took three attempts, the activity has
\* closed the adapter, and request_count still stands at three.
ThreeAttemptsCountedWitness ==
    /\ pc = "done"
    /\ close_calls = 1
    /\ client_closes = 1
    /\ Len(outcomes) = 3
    /\ page_calls <= 1
    /\ request_count = 3
    /\ acquired = 3
    /\ http_sent = 3

\* C28: the adapter holds no client until its first operation asks for one;
\* every client it ever built is either the one it holds or one that a
\* close() has closed, and each was built from one credential resolution, so
\* at most one is built between two closes; all requests of an operation go
\* through the one client built at its start; an adapter whose credential
\* does not resolve never holds a client.
ClientBuiltLazilyAndReused ==
    /\ credential_reads = client_closes + (IF client THEN 1 ELSE 0)
    /\ pc \in {"init", "get_client"} => (~client /\ credential_reads = 0)
    /\ InRequest => (client /\ credential_reads = 1)
    /\ CredentialMissing(cfg) => (~client /\ credential_reads = 0)

\* C28 witness: the adapter is holding its third client: the first served
\* several requests and was closed by the activity, the second was built on
\* later use and closed by a further close(), the third was built after that.
ThirdClientWitness ==
    /\ pc = "done"
    /\ http_sent >= 2
    /\ close_calls = 1
    /\ direct_closes = 1
    /\ client_closes = 2
    /\ credential_reads = 3
    /\ client

\* C29: fetch_data of an adapter with max_pages <= 0 calls _fetch_page not once,
\* takes no token, sends no request, reads no file and sends no heartbeat;
\* when the credential resolves it returns success=true with no records,
\* record_count 0 and has_more false.
NonPositiveMaxPagesFetchesNothing ==
    (op = "fetch_data" /\ connector = "live" /\ req.max_pages <= 0) =>
        /\ page_calls = 0
        /\ pages_fetched = 0
        /\ acquired = 0
        /\ http_sent = 0
        /\ file_reads = 0
        /\ ~hb_lost
        /\ (Finished /\ ~CredentialMissing(cfg)) =>
              /\ result.kind = "FetchResult"
              /\ result.success
              /\ result.records = <<>>
              /\ result.record_count = 0
              /\ ~result.has_more

\* C29 witness: fetch_data with a negative max_pages has returned its
\* success result on an adapter that built its client.
NegativeMaxPagesWitness ==
    /\ op = "fetch_data"
    /\ req.max_pages < 0
    /\ pc = "done"
    /\ credential_reads = 1
    /\ result.kind = "FetchResult"
    /\ result.success

\* ------------------------------------------- claims: TokenBucket, continued
Sleeping == {p \in Coroutines : cpc[p] = "sleeping"}

\* a coroutine asleep in acquire() holds the lock, and of the sleeps made at
\* most one belongs to each acquire() that has returned or is asleep
LockHeldAcrossWait ==
    /\ \A p \in Sleeping : lock = p
    /\ Cardinality(Sleeping) <= 1
    /\ sleeps <= returned + Cardinality(Sleeping)

\* one step, seen from a coroutine p asleep in acquire(): while p stays
\* asleep no acquire() returns or raises and no token is taken; when p's
\* sleep ends p takes its token from the refilled bucket and returns without
\* a second sleep; the lock passes from the coroutine that finishes to the
\* first one queued
OneAcquireAtATime ==
    /\ \A p \in Sleeping :
         IF cpc'[p] = "sleeping"
         THEN /\ returned' = returned
              /\ raised' = raised
              /\ sleeps' = sleeps
              /\ bucket'.tokens >= bucket.tokens
         ELSE /\ cpc'[p] = "idle"
              /\ returned' = returned + 1
              /\ sleeps' = sleeps
              /\ bucket'.tokens = Refill(bucket, now).tokens - OneToken
    /\ returned' + raised' # returned + raised =>
         /\ lock # NoOne
         /\ cpc[lock] \in {"held", "sleeping"}
         /\ cpc'[lock] = "idle"
         /\ returned' + raised' = returned + raised + 1
         /\ lock' = IF waiters = <<>> THEN NoOne ELSE Head(waiters)
    /\ (lock # NoOne /\ lock' # lock) => returned' + raised' = returned + raised + 1

\* C30: the lock is held across the wait for refill: while an acquire() is
\* asleep no other acquire() refills, reads or takes tokens; acquire() calls
\* complete one at a time, in the order in which they got the lock; each
\* sleeps at most once before it takes its token.
LockSerializesAcquires ==
    []LockHeldAcrossWait /\ [][OneAcquireAtATime]_vars

\* C30 witness: after one acquire() has returned, a second is asleep waiting
\* for its token, holding the lock, and a third call is queued behind it.
QueuedBehindSleeperWitness ==
    /\ returned >= 1
    /\ \E p, q \in Coroutines :
         /\ cpc[p] = "sleeping"
         /\ lock = p
         /\ cpc[q] = "waiting"
         /\ waiters = <<q>>
    /\ sleeps = 1

\* ------------------------------------------- claims: config store, continued
\* two publish_schema calls that ran at the same time and have both returned
ReturnedTogether(c, d) ==
    /\ c # d
    /\ inflight[c].at = "returned"
    /\ inflight[d].at = "returned"
    /\ inflight[c].overlapped
    /\ inflight[d].overlapped
    /\ inflight[c].name = inflight[d].name

\* C31: two concurrent publish_schema calls with the same name return the
\* same schema_id and two distinct versions, and the stored current definition
\* carries the higher of the two versions: no update is lost and no second
\* schema id is created for the name
ConcurrentPublishesLoseNothing ==
    \A c, d \in Callers :
        ReturnedTogether(c, d) =>
            /\ inflight[c].success
            /\ inflight[d].success
            /\ inflight[c].schema_id = inflight[d].schema_id
            /\ inflight[c].version # inflight[d].version
            /\ LET current == GetValue(store, schema_key(inflight[c].schema_id))
               IN /\ Found(current)
                  /\ current.json
                  /\ current.doc.version = Max(inflight[c].version, inflight[d].version)

\* the ids in the sorted set of all schema ids
SchemaIds ==
    IF TypeOf(store, schema_idx_all) = "zset" THEN store[schema_idx_all].members
    ELSE {}

\* "status: str = 'draft'  # draft, active, archived"
SchemaStatuses == {"draft", "active", "archived"}

\* the status index sets that hold a schema id
StatusSetsOf(schema_id) ==
    {status \in SchemaStatuses :
        schema_id \in SMembers(store, schema_idx_status(status))}

\* C32: after any sequence of publish_schema and archive_schema calls every
\* schema id is a member of exactly one status index set, the one of the
\* status recorded in the schema's stored current definition
OneStatusSetPerSchema ==
    \A schema_id \in SchemaIds :
        LET current == GetValue(store, schema_key(schema_id))
        IN /\ Found(current)
           /\ current.json
           /\ StatusSetsOf(schema_id) = {current.doc.status}

\* ------------------------------------------ claims: adapters, continued
\* connect() or test_connection() of the Microblogging adapter
XConnecting == cfg.source_type = "x" /\ op \in {"connect", "test_connection"}

\* config_json carries a non-empty username
HasUsername == CfgGet(cfg, "username", "") # ""

ConnectSucceeded == result.kind = "ConnectionResult" /\ result.success

NothingSent == http_sent = 0 /\ request_count = 0 /\ acquired = 0

EnrichmentFetch ==
    cfg.source_type = "rb2b" /\ op = "fetch_data" /\ req.max_pages >= 1

\* no page fetch follows the first, one _request_with_retry call at most
\* (MaxAttempts attempts), no next cursor, has_more false
SingleShot ==
    /\ page_calls <= 1
    /\ page_returns <= 1
    /\ request_count <= MaxAttempts
    /\ http_sent <= MaxAttempts
    /\ (page_calls = 0 \/ FileMode(cfg)) => (request_count = 0 /\ http_sent = 0)
    /\ pc = "page_returned" => page_result[2] = NoCursor
    /\ cursor = NoCursor
    /\ (pc = "done" /\ result.kind = "FetchResult") => ~result.has_more

\* C34 as stated: for any max_pages >= 1 fetch_data of the Enrichment/FileDump
\* adapter performs exactly one page fetch, sends at most one logical HTTP
\* request and reports has_more = false
EnrichmentFetchesExactlyOnePage ==
    EnrichmentFetch =>
        /\ SingleShot
        /\ pc = "done" => page_calls = 1

\* C34: page fetches of the Enrichment/FileDump adapter never return a next
\* cursor, so for any max_pages >= 1 its fetch_data performs at most one page
\* fetch, exactly one when the credential resolves and none when it does not,
\* sends at most one logical HTTP request and reports has_more = false
EnrichmentIsSingleShot ==
    EnrichmentFetch =>
        /\ SingleShot
        /\ pc = "done" => (page_calls = 1 <=> ~CredentialMissing(cfg))

\* an enrichment fetch allowed several pages returned after its one page
OnePageOfManyAllowedWitness ==
    /\ EnrichmentFetch
    /\ ~FileMode(cfg)
    /\ req.max_pages >= 2
    /\ pc = "done"
    /\ result.kind = "FetchResult"
    /\ result.success
    /\ ~result.has_more
    /\ page_calls = 1
    /\ http_sent >= 1

\* a page request of the ProductAnalytics adapter's fetch_data is under way
PostHogPageRequest ==
    /\ cfg.source_type = "posthog"
    /\ op = "fetch_data"
    /\ purpose = "page"
    /\ InRequest

\* the request sent for the cursor the previous page returned: the URL and
\* nothing else, or the listing path with the limit and the offset
PostHogRequestFollowsCursor ==
    PostHogPageRequest =>
        IF cursor.kind = "url"
        THEN /\ last_request.method = "GET"
             /\ last_request.verbatim = cursor
             /\ last_request.path = ""
             /\ last_request.offset = NoCursor
             /\ last_request.cursor = NoCursor
             /\ last_request.limit = 0
        ELSE /\ last_request.method = "GET"
             /\ last_request.verbatim = NoCursor
             /\ last_request.path # ""
             /\ last_request.limit = PageLimit
             /\ last_request.cursor = NoCursor
             /\ last_request.offset = (IF Truthy(cursor) THEN cursor ELSE NoCursor)

\* the page returned carries the "next" of one of the responses the provider
\* can give to the request, none when the response has no "next" or a null
PostHogNextIsResponseNext ==
    (/\ cfg.source_type = "posthog"
     /\ pc = "send"
     /\ pc' = "page_returned")
    => \E resp \in PostHogResponses(provider', PageOf(last_request)) :
          /\ page_result'[1] =
               NormalizeItems("posthog", req.resource_type, resp.results)
          /\ page_result'[2] =
               (IF "next" \in DOMAIN resp THEN resp.next ELSE NoCursor)

\* C35: for the ProductAnalytics adapter, when the previous page returned a
\* full next URL the next page request is a GET to exactly that URL with no
\* rebuilt query parameters; only a cursor that is not a URL is sent as an
\* offset parameter together with the fixed limit; and the page's next cursor
\* is the response's next field, none when it is absent or null
PostHogFollowsNextVerbatim ==
    []PostHogRequestFollowsCursor /\ [][PostHogNextIsResponseNext]_vars

\* the second page is being requested by the URL the first page returned
NextUrlRequestedWitness ==
    /\ PostHogPageRequest
    /\ pc = "send"
    /\ pages_fetched = 1
    /\ cursor.kind = "url"
    /\ last_request.verbatim = cursor
    /\ last_request.limit = 0

\* fetch_data or get_schema of the Enrichment/FileDump adapter configured
\* with mode "file"
FileDumpCall ==
    /\ cfg.source_type = "rb2b"
    /\ CfgGet(cfg, "mode", "api") = "file"
    /\ op \in {"fetch_data", "get_schema"}

\* C36: in file-dump mode fetch_data and get_schema of the Enrichment/FileDump
\* adapter send no HTTP request and consume no rate-limiter token, yet they
\* resolve the credential before reading the file: with auth_env_var unset or
\* naming an empty variable the file is never read and the result is
\* success=false
FileDumpNeedsCredentialNotNetwork ==
    FileDumpCall =>
        /\ http_sent = 0
        /\ request_count = 0
        /\ acquired = 0
        /\ bucket.tokens = bucket.capacity
        /\ pc \notin {"acquire", "send", "awaiting"}
        /\ (pc = "read_file" \/ file_reads >= 1) =>
              (credential_reads >= 1 /\ ~CredentialMissing(cfg))
        /\ CredentialMissing(cfg) =>
              /\ file_reads = 0
              /\ Finished =>
                   /\ result.kind \in {"FetchResult", "SourceSchema"}
                   /\ ~result.success

\* with the credential missing the call ended without touching the file
FileDumpRefusedWitness ==
    /\ FileDumpCall
    /\ CredentialMissing(cfg)
    /\ CfgGet(cfg, "file_path", "") # ""
    /\ pc = "done"
    /\ ~result.success
    /\ file_reads = 0

====
